---- MODULE Spec2Model ----
(***************************************************************************)
(* A model of the error-narrator engine: the admission policy of           *)
(* Config.shouldSpeak (src/src/config.js), the humanization pipeline of    *)
(* ErrorProcessor (src/src/errorProcessor.js) and the single-consumer      *)
(* speech queue of ErrorNarratorBrowser (src/src/browser.js) and           *)
(* ErrorNarratorNode (src/unnamed/part_004).                               *)
(*                                                                         *)
(* Time is Date.now() in milliseconds.  JavaScript strings are TLA+        *)
(* strings; null and undefined option values that the code treats like an  *)
(* empty array are the empty sequence.                                     *)
(***************************************************************************)
EXTENDS Integers, Sequences, FiniteSets, TLC

VARIABLES
    engine,        \* "browser" (browser.js) or "node" (part_004): which class was constructed
    sinkReady,     \* window.speechSynthesis exists / the say package was loaded
    config,        \* Config.config
    lastSpoken,    \* Config.lastSpoken: Map from "global" and error keys to Date.now() values
    errorCounts,   \* Config.errorCounts: Map from error keys to counts
    speechQueue,   \* engine.speechQueue, each entry with the order number of its push
    isSpeaking,    \* engine.isSpeaking
    sink,          \* utterances handed to the sink whose completion callback has not fired
    timers,        \* due times of the pending setTimeout(processSpeechQueue, 100) calls
    now,           \* Date.now()
    nextSeq,       \* number of pushes to speechQueue so far
    delivered,     \* order numbers of the utterances handed to the sink, in hand-over order
    lastCall,      \* the last operation called and what it returned
    script         \* position and verdicts of a scripted sequence of submissions

vars == <<engine, sinkReady, config, lastSpoken, errorCounts, speechQueue, isSpeaking,
          sink, timers, now, nextSeq, delivered, lastCall, script>>

ledgerVars == <<lastSpoken, errorCounts>>

queueVars == <<speechQueue, isSpeaking, sink, timers, nextSeq, delivered>>

(***************************************************************************)
(* Bounds of the model.                                                    *)
(***************************************************************************)
\* the engine is observed for this many clock steps
MaxTicks == 2

\* the policy alone is observed for this many clock steps
MaxPolicyTicks == 20

\* at most this many utterances are pushed to the queue in one behaviour
MaxPushes == 3

\* at most this many settle timers are pending at once
MaxTimers == 2

\* at most this many faults are admitted in one behaviour
MaxCount == 6

\* the scripted scenarios start at a clock value of 0 .. MaxBase steps
MaxBase == 20

\* the largest limit given to truncateMessage; messages are one longer at most
MaxLen == 5

\* the number of faults of a burst
MaxBurst == 3

\* the number of calls of setupGlobalHandlers on one engine
MaxActivations == 2

\* the number of engines that the entry point may construct
MaxInstances == 3

\* the number of setupErrorNarratorAsync calls that may be suspended at once
MaxAsync == 2

(***************************************************************************)
(* Program constants.                                                      *)
(***************************************************************************)
\* setTimeout(() => this.processSpeechQueue(), 100)
SettleDelay == 100

\* Math.min(errorCount + 1, 5)
MaxMultiplier == 5

\* the default of the maxLength parameter of truncateMessage
DefaultMaxLength == 150

\* the clock is observed every Step milliseconds
Step == SettleDelay

\* Map.get() of an absent key (Date.now() and counts are never negative)
Undefined == 0 - 1

\* lastSpoken.set("global", now): the key of the global entry
GlobalKey == <<"global">>

NoCall == [op |-> "none", arg |-> "", result |-> ""]

NoScript == [step |-> 0, base |-> 0, log |-> <<>>]

Min(a, b) == IF a < b THEN a ELSE b

\* a function of the model's inputs as an explicit table, computed once
Table(f) == f @@ <<>>

(***************************************************************************)
(* JavaScript strings.                                                     *)
(***************************************************************************)
\* the printable ASCII characters of codes 32..95 and 97..126 (a TLA+ string
\* cannot hold the grave accent, code 96)
AsciiLow == " !\"#$%&'()*+,-./0123456789:;<=>?@ABCDEFGHIJKLMNOPQRSTUVWXYZ[\\]^_"

AsciiHigh == "abcdefghijklmnopqrstuvwxyz{|}~"

CharAt(str, i) == SubSeq(str, i, i)

\* String.fromCharCode(code) for a printable code
CharOf(code) == IF code <= 95 THEN CharAt(AsciiLow, code - 31) ELSE CharAt(AsciiHigh, code - 96)

\* the code of every character of the model
CodeOf ==
    Table([c \in {CharOf(code) : code \in (32..95) \cup (97..126)} \cup {"\t", "\n", "\f", "\r"} |->
              IF c = "\t" THEN 9 ELSE IF c = "\n" THEN 10
              ELSE IF c = "\f" THEN 12 ELSE IF c = "\r" THEN 13
              ELSE CHOOSE code \in (32..95) \cup (97..126) : CharOf(code) = c])

\* str.charCodeAt(i - 1)
charCodeAt(str, i) == CodeOf[CharAt(str, i)]

LowerChar(c) ==
    LET code == charCodeAt(c, 1)
    IN  IF code >= 65 /\ code <= 90 THEN CharOf(code + 32) ELSE c

RECURSIVE toLowerCase(_)
\* str.toLowerCase(), character by character (the string is split in halves to
\* keep the evaluation shallow)
toLowerCase(str) ==
    IF Len(str) = 0 THEN ""
    ELSE IF Len(str) = 1 THEN LowerChar(str)
    ELSE LET half == Len(str) \div 2
         IN  toLowerCase(SubSeq(str, 1, half)) \o toLowerCase(SubSeq(str, half + 1, Len(str)))

\* str.includes(pattern)
includes(str, pattern) ==
    \E i \in 1..(Len(str) - Len(pattern) + 1) : SubSeq(str, i, i + Len(pattern) - 1) = pattern

\* message.toLowerCase().includes(pattern.toLowerCase())
includesIgnoreCase(str, pattern) == includes(toLowerCase(str), toLowerCase(pattern))

(***************************************************************************)
(* Config.hashString.  The 32-bit hash is kept as two 16-bit halves        *)
(* <<high, low>>; (hash << 5) - hash + char is 31 * hash + char modulo     *)
(* 2^32, and hash & hash keeps the low 32 bits.                            *)
(***************************************************************************)
HashStep(hash, char) ==
    LET low  == 31 * hash[2] + char
        high == 31 * hash[1] + (low \div 65536)
    IN  <<high % 65536, low % 65536>>

RECURSIVE HashLoop(_, _, _, _)
\* for (let i = first - 1; i < last; i++) { ... }, left to right from hash (the
\* range is split in halves to keep the evaluation shallow)
HashLoop(str, first, last, hash) ==
    IF first > last THEN hash
    ELSE IF first = last THEN HashStep(hash, charCodeAt(str, first))
    ELSE LET middle == (first + last) \div 2
             left   == HashLoop(str, first, middle, hash)
         IN  \* the test makes the evaluation of the left half come first
             IF left[1] >= 0 THEN HashLoop(str, middle + 1, last, left) ELSE left

\* Math.abs of the signed 32-bit value of the two halves
HashAbs(hash) ==
    IF hash[1] < 32768 THEN hash
    ELSE IF hash[2] = 0 THEN <<65536 - hash[1], 0>>
    ELSE <<65535 - hash[1], 65536 - hash[2]>>

hashString(str) == HashAbs(HashLoop(str, 1, Len(str), <<0, 0>>))

(***************************************************************************)
(* Errors: the constructor name, the message and the stack ("" when the    *)
(* thrown value has none).                                                 *)
(***************************************************************************)
FetchError == [name |-> "Error", message |-> "Failed to fetch", stack |-> ""]

FetchUsersError == [name |-> "Error", message |-> "Failed to fetch users", stack |-> ""]

NotAFunctionError == [name |-> "TypeError", message |-> "map is not a function", stack |-> ""]

ResizeError == [name |-> "Error", message |-> "ResizeObserver loop limit exceeded", stack |-> ""]

UriError == [name |-> "URIError", message |-> "URI malformed", stack |-> ""]

RejectionError == [name |-> "Error", message |-> "Non-Error promise rejection captured", stack |-> ""]

EmptyError == [name |-> "RangeError", message |-> "", stack |-> ""]

ChunkError == [name |-> "Error", message |-> "Loading  chunk 5 failed", stack |-> ""]

StackedError ==
    [name |-> "Error", message |-> "Something {broke}",
     stack |-> "Error: Something {broke}\n    at run (/app/src/main.js:10:5)"]

\* Error.prototype.toString()
toString(error) ==
    IF error.message = "" THEN error.name ELSE error.name \o ": " \o error.message

\* error.message || error.toString()
messageOf(error) == IF error.message # "" THEN error.message ELSE toString(error)

\* error.constructor?.name || "Error"
errorTypeOf(error) == IF error.name # "" THEN error.name ELSE "Error"

\* `${errorType}:${messageHash}`
ErrorKey(error) == <<errorTypeOf(error), hashString(messageOf(error))>>

\* the errors of the model
AllErrors ==
    {FetchError, FetchUsersError, NotAFunctionError, ResizeError, UriError,
     RejectionError, EmptyError, ChunkError, StackedError}

\* errorKey of every error of the model, computed once
ErrorKeyTable == Table([error \in AllErrors |-> ErrorKey(error)])

errorKeyOf(error) == ErrorKeyTable[error]

(***************************************************************************)
(* Config.                                                                 *)
(***************************************************************************)
defaultFilters ==
    [ignorePatterns |-> <<"ResizeObserver loop limit exceeded",
                          "Non-Error promise rejection captured",
                          "Loading chunk">>,
     onlyPatterns   |-> <<>>,
     errorTypes     |-> <<"SyntaxError", "ReferenceError", "TypeError", "RangeError", "Error">>]

defaultConfig ==
    [enabled          |-> TRUE,   \* process.env.NODE_ENV === "development"
     voice            |-> "",
     rate             |-> 1,
     pitch            |-> 1,
     volume           |-> 1,
     maxMessageLength |-> 100,
     cooldownMs       |-> 5000,
     filters          |-> defaultFilters,
     humanize         |-> TRUE,
     fallbackToRaw    |-> TRUE,
     debug            |-> TRUE]

\* typeof source[key] === "object" && source[key] !== null && !Array.isArray(source[key])
IsPlainObject(key) == key = "filters"

\* a variant of the merge that replaces a nested object whole
MergeInner_Replaces(target, source) == source

MergeInner(target, source) ==
    [key \in DOMAIN target \cup DOMAIN source |->
        IF key \in DOMAIN source THEN source[key] ELSE target[key]]

\* a variant of deepMerge in which the values of the target win
deepMerge_TargetWins(target, source) ==
    [key \in DOMAIN target \cup DOMAIN source |->
        IF key \in DOMAIN target THEN target[key] ELSE source[key]]

deepMerge(target, source) ==
    [key \in DOMAIN target \cup DOMAIN source |->
        IF key \notin DOMAIN source THEN target[key]
        ELSE IF IsPlainObject(key)
             THEN MergeInner(IF key \in DOMAIN target THEN target[key] ELSE <<>>, source[key])
             ELSE source[key]]

Get(map, key) == IF key \in DOMAIN map THEN map[key] ELSE Undefined

\* JavaScript truthiness of a number or undefined
Truthy(value) == value # Undefined /\ value # 0

\* this.errorCounts.get(errorKey) || 0
CountOf(counts, key) == IF Truthy(Get(counts, key)) THEN Get(counts, key) ELSE 0

Put(map, key, value) ==
    [k \in DOMAIN map \cup {key} |-> IF k = key THEN value ELSE map[k]]

SeqToSet(seq) == {seq[i] : i \in 1..Len(seq)}

\* the patterns that a filter of the model can hold
AllPatterns ==
    SeqToSet(defaultFilters.ignorePatterns)
        \cup {"FETCH", "Non-critical warning", "Network error"}

\* the texts that the filters of the model are applied to
AllMessages == {messageOf(error) : error \in AllErrors}

\* includesIgnoreCase of every message and pattern of the model, computed once
MatchTable ==
    Table([pair \in AllMessages \X AllPatterns |-> includesIgnoreCase(pair[1], pair[2])])

Matches(message, pattern) == MatchTable[<<message, pattern>>]

(***************************************************************************)
(* Config.shouldSpeak: the ordered checks, then the update of the ledger.  *)
(***************************************************************************)
\* a variant of the policy without the global cooldown
GlobalCooldownActive_Never == FALSE

\* lastGlobalSpoken && now - lastGlobalSpoken < this.config.cooldownMs
GlobalCooldownActive ==
    LET lastGlobalSpoken == Get(lastSpoken, GlobalKey)
    IN  Truthy(lastGlobalSpoken) /\ now - lastGlobalSpoken < config.cooldownMs

\* a variant of the escalation that multiplies by the count itself
specificCooldown_ByCount(errorCount) == config.cooldownMs * Min(errorCount, MaxMultiplier)

\* this.config.cooldownMs * Math.min(errorCount + 1, 5)
specificCooldown(errorCount) == config.cooldownMs * Min(errorCount + 1, MaxMultiplier)

\* if (lastErrorSpoken) { ... if (now - lastErrorSpoken < specificCooldown) return false }
SpecificCooldownActive(errorKey) ==
    LET lastErrorSpoken == Get(lastSpoken, errorKey)
    IN  /\ Truthy(lastErrorSpoken)
        /\ now - lastErrorSpoken < specificCooldown(CountOf(errorCounts, errorKey))

\* this.config.filters.ignorePatterns?.some(...)
MatchesIgnorePattern(message) ==
    \E pattern \in SeqToSet(config.filters.ignorePatterns) : Matches(message, pattern)

\* this.config.filters.errorTypes?.length > 0 && !this.config.filters.errorTypes.includes(errorType)
ErrorTypeFiltered(errorType) ==
    /\ Len(config.filters.errorTypes) > 0
    /\ errorType \notin SeqToSet(config.filters.errorTypes)

\* onlyPatterns && onlyPatterns.length > 0 && !matchesOnlyPattern
OnlyPatternsFiltered(message) ==
    /\ Len(config.filters.onlyPatterns) > 0
    /\ ~ \E pattern \in SeqToSet(config.filters.onlyPatterns) : Matches(message, pattern)

\* the return value of shouldSpeak(error), with the check that returned false
shouldSpeakVerdict(error) ==
    LET message   == messageOf(error)
        errorType == errorTypeOf(error)
        errorKey  == errorKeyOf(error)
    IN  IF ~config.enabled THEN "disabled"
        ELSE IF GlobalCooldownActive THEN "global cooldown"
        ELSE IF SpecificCooldownActive(errorKey) THEN "specific cooldown"
        ELSE IF MatchesIgnorePattern(message) THEN "ignore pattern"
        ELSE IF ErrorTypeFiltered(errorType) THEN "error type"
        ELSE IF OnlyPatternsFiltered(message) THEN "only patterns"
        ELSE "admitted"

\* a variant that records the time before the filters are consulted
LastSpokenAfter_BeforeFilters(error, verdict) ==
    IF verdict \in {"admitted", "ignore pattern", "error type", "only patterns"}
    THEN Put(Put(lastSpoken, GlobalKey, now), errorKeyOf(error), now)
    ELSE lastSpoken

\* this.lastSpoken after shouldSpeak(error) has returned verdict
LastSpokenAfter(error, verdict) ==
    IF verdict = "admitted"
    THEN Put(Put(lastSpoken, GlobalKey, now), errorKeyOf(error), now)
    ELSE lastSpoken

\* a variant that forgets the count so far
ErrorCountsAfter_FromZero(error, verdict) ==
    IF verdict = "admitted" THEN Put(errorCounts, errorKeyOf(error), 1) ELSE errorCounts

\* a variant that counts every submission, admitted or not
ErrorCountsAfter_EverySubmission(error, verdict) ==
    Put(errorCounts, errorKeyOf(error), CountOf(errorCounts, errorKeyOf(error)) + 1)

\* this.errorCounts after shouldSpeak(error) has returned verdict
ErrorCountsAfter(error, verdict) ==
    IF verdict = "admitted"
    THEN Put(errorCounts, errorKeyOf(error), CountOf(errorCounts, errorKeyOf(error)) + 1)
    ELSE errorCounts

(***************************************************************************)
(* ErrorProcessor: the regular expressions of humanizeError and of         *)
(* cleanMessage, matched as the JavaScript engine matches them (leftmost   *)
(* start first, lazy groups as short and greedy groups as long as the rest *)
(* of the expression allows).                                              *)
(***************************************************************************)
WhitespaceChars == {" ", "\t", "\n", "\f", "\r"}

LineTerminators == {"\n", "\r"}

\* the characters that . matches
DotChars == DOMAIN CodeOf \ LineTerminators

DigitChars == {"0", "1", "2", "3", "4", "5", "6", "7", "8", "9"}

\* \w
WordChars ==
    {CharOf(code) : code \in (48..57) \cup (65..90) \cup (97..122)} \cup {"_"}

\* the characters that cleanMessage keeps: [\w\s.,!?:-]
ReadableChars == WordChars \cup WhitespaceChars \cup {".", ",", "!", "?", ":", "-"}

BracketChars == {"{", "}", "[", "]"}

Least(S) == CHOOSE i \in S : \A j \in S : i <= j

Greatest(S) == CHOOSE i \in S : \A j \in S : i >= j

StartsAt(str, i, literal) ==
    /\ i >= 1
    /\ i + Len(literal) - 1 <= Len(str)
    /\ SubSeq(str, i, i + Len(literal) - 1) = literal

Occurrences(str, literal) == {i \in 1..Len(str) : StartsAt(str, i, literal)}

\* the last index of the longest run of characters of the class that starts at i
\* (i - 1 when the character at i is not of the class)
RunEnd(str, i, class) ==
    Least({j \in i..(Len(str) + 1) : j = Len(str) + 1 \/ CharAt(str, j) \notin class}) - 1

\* . matches the characters from..to
DotRun(str, from, to) == \A k \in from..to : CharAt(str, k) \in DotChars

\* the positions of str, the one after its last character included
Positions(str) == 1..(Len(str) + 1)

\* (.+?) from `from`: the end of the shortest group that ends just before one of
\* the positions `rests`, where the rest of the expression matches; 0 if none
LazyGroup(str, from, rests) ==
    LET ends == {g \in from..Len(str) : DotRun(str, from, g) /\ g + 1 \in rests}
    IN  IF ends = {} THEN 0 ELSE Least(ends)

\* \s+literal at i
WhitespaceThenLiteral(str, i, literal) ==
    /\ i <= Len(str)
    /\ CharAt(str, i) \in WhitespaceChars
    /\ StartsAt(str, RunEnd(str, i, WhitespaceChars) + 1, literal)

\* str.trim()
trim(str) ==
    LET inked == {i \in 1..Len(str) : CharAt(str, i) \notin WhitespaceChars}
    IN  IF inked = {} THEN "" ELSE SubSeq(str, Least(inked), Greatest(inked))

\* the result of String.match: null, or the captured groups
NoMatch == [found |-> FALSE, groups |-> <<>>]

Found(groups) == [found |-> TRUE, groups |-> groups]

\* /(.+?)\s+is not a function/i   and   /(.+?) is not defined/i
MatchSubjectThen(message, rests) ==
    LET starts == {s \in 1..Len(message) : LazyGroup(message, s, rests) # 0}
    IN  IF starts = {} THEN NoMatch
        ELSE Found(<<SubSeq(message, Least(starts), LazyGroup(message, Least(starts), rests))>>)

MatchIsNotAFunction(message) ==
    LET lower == toLowerCase(message)
    IN  MatchSubjectThen(message, {i \in Positions(message) :
                                      WhitespaceThenLiteral(lower, i, "is not a function")})

MatchIsNotDefined(message) ==
    LET lower == toLowerCase(message)
    IN  MatchSubjectThen(message, {i \in Positions(message) :
                                      StartsAt(lower, i, " is not defined")})

\* /Cannot read property '(.+?)' of (.+)/i
MatchCannotReadProperty(message) ==
    LET lower  == toLowerCase(message)
        head   == "cannot read property '"
        Rest(i) == /\ StartsAt(lower, i, "' of ")
                   /\ i + 5 <= Len(message)
                   /\ CharAt(message, i + 5) \notin LineTerminators
        rests  == {i \in Positions(message) : Rest(i)}
        starts == {p \in Occurrences(lower, head) :
                      LazyGroup(message, p + Len(head), rests) # 0}
    IN  IF starts = {} THEN NoMatch
        ELSE LET from == Least(starts) + Len(head)
                 g    == LazyGroup(message, from, rests)
             IN  Found(<<SubSeq(message, from, g),
                         SubSeq(message, g + 6,
                                RunEnd(message, g + 6, DotChars))>>)

\* /Cannot read properties of (.+?) \(reading '(.+?)'\)/i
MatchCannotReadProperties(message) ==
    LET lower  == toLowerCase(message)
        head   == "cannot read properties of "
        middle == " (reading '"
        closings == {k \in Positions(message) : StartsAt(message, k, "')")}
        Rest(i) == /\ StartsAt(lower, i, middle)
                   /\ LazyGroup(message, i + Len(middle), closings) # 0
        rests  == {i \in Positions(message) : Rest(i)}
        starts == {p \in Occurrences(lower, head) :
                      LazyGroup(message, p + Len(head), rests) # 0}
    IN  IF starts = {} THEN NoMatch
        ELSE LET from  == Least(starts) + Len(head)
                 g     == LazyGroup(message, from, rests)
                 from2 == g + 1 + Len(middle)
             IN  Found(<<SubSeq(message, from, g),
                         SubSeq(message, from2, LazyGroup(message, from2, closings))>>)

\* /Unexpected token (.+?)(?:\s+in JSON at position (\d+))?/i ; the second
\* group is "" when the optional part does not take part in the match
MatchUnexpectedToken(message) ==
    LET lower  == toLowerCase(message)
        head   == "unexpected token "
        tail   == "in json at position "
        starts == {p \in Occurrences(lower, head) :
                      /\ p + Len(head) <= Len(message)
                      /\ CharAt(message, p + Len(head)) \notin LineTerminators}
    IN  IF starts = {} THEN NoMatch
        ELSE LET at     == Least(starts) + Len(head)
                 digits == RunEnd(lower, at + 1, WhitespaceChars) + 1 + Len(tail)
             IN  Found(<<CharAt(message, at),
                         IF /\ WhitespaceThenLiteral(lower, at + 1, tail)
                            /\ RunEnd(message, digits, DigitChars) >= digits
                         THEN SubSeq(message, digits, RunEnd(message, digits, DigitChars))
                         ELSE "">>)

\* /Module not found: (.+)/i
MatchModuleNotFound(message) ==
    LET lower  == toLowerCase(message)
        head   == "module not found: "
        starts == {p \in Occurrences(lower, head) :
                      /\ p + Len(head) <= Len(message)
                      /\ CharAt(message, p + Len(head)) \notin LineTerminators}
    IN  IF starts = {} THEN NoMatch
        ELSE Found(<<SubSeq(message, Least(starts) + Len(head),
                            RunEnd(message, Least(starts) + Len(head), DotChars))>>)

\* a regular expression that is one literal, with the flag i
MatchLiteral(message, literal) ==
    IF includes(toLowerCase(message), toLowerCase(literal)) THEN Found(<<>>) ELSE NoMatch

\* /Cannot update a component.*while rendering/i
MatchUpdateWhileRendering(message) ==
    LET lower == toLowerCase(message)
        head  == "cannot update a component"
    IN  IF \E p \in Occurrences(lower, head) :
              \E q \in Occurrences(lower, "while rendering") :
                  q >= p + Len(head) /\ DotRun(lower, p + Len(head), q - 1)
        THEN Found(<<>>) ELSE NoMatch

(***************************************************************************)
(* ErrorProcessor.cleanMessage, truncateMessage, humanizeError and         *)
(* shouldIgnoreError.                                                      *)
(***************************************************************************)
\* .replace(/webpack:\/\/\/.*?!/g, "")
RECURSIVE RemoveWebpack(_)

RemoveWebpack(str) ==
    LET head   == "webpack:///"
        End(p) == RunEnd(str, p + Len(head), DotChars \ {"!"}) + 1
        starts == {p \in Occurrences(str, head) : StartsAt(str, End(p), "!")}
    IN  IF starts = {} THEN str
        ELSE SubSeq(str, 1, Least(starts) - 1)
                 \o RemoveWebpack(SubSeq(str, End(Least(starts)) + 1, Len(str)))

\* .replace(/\.\//g, "")
RECURSIVE RemoveDotSlash(_)

RemoveDotSlash(str) ==
    LET starts == Occurrences(str, "./")
    IN  IF starts = {} THEN str
        ELSE SubSeq(str, 1, Least(starts) - 1)
                 \o RemoveDotSlash(SubSeq(str, Least(starts) + 2, Len(str)))

\* .replace(/[^\s]*node_modules[^\s]*/g, "dependency")
RECURSIVE ReplaceNodeModules(_)

ReplaceNodeModules(str) ==
    LET starts == Occurrences(str, "node_modules")
    IN  IF starts = {} THEN str
        ELSE LET at    == Least(starts)
                 first == Greatest({0} \cup {i \in 1..at : CharAt(str, i) \in WhitespaceChars}) + 1
                 last  == RunEnd(str, at, DOMAIN CodeOf \ WhitespaceChars)
             IN  SubSeq(str, 1, first - 1) \o "dependency"
                     \o ReplaceNodeModules(SubSeq(str, last + 1, Len(str)))

\* .replace(/[class]/g, " ")
RECURSIVE ReplaceClass(_, _)

ReplaceClass(str, class) ==
    IF Len(str) = 0 THEN ""
    ELSE IF Len(str) = 1 THEN (IF str \in class THEN " " ELSE str)
    ELSE LET middle == Len(str) \div 2
         IN  ReplaceClass(SubSeq(str, 1, middle), class)
                 \o ReplaceClass(SubSeq(str, middle + 1, Len(str)), class)

\* .replace(/\s+/g, " ") on the characters first..last of str
RECURSIVE CollapseWhitespace(_, _, _)

CollapseWhitespace(str, first, last) ==
    IF first > last THEN ""
    ELSE IF first = last
    THEN IF CharAt(str, first) \notin WhitespaceChars THEN CharAt(str, first)
         ELSE IF first > 1 /\ CharAt(str, first - 1) \in WhitespaceChars THEN "" ELSE " "
    ELSE LET middle == (first + last) \div 2
         IN  CollapseWhitespace(str, first, middle) \o CollapseWhitespace(str, middle + 1, last)

cleanMessage(message) ==
    LET unbundled == RemoveDotSlash(RemoveWebpack(message))
        shortened == ReplaceNodeModules(unbundled)
        readable  == ReplaceClass(ReplaceClass(shortened, BracketChars),
                                  DOMAIN CodeOf \ ReadableChars)
    IN  trim(CollapseWhitespace(readable, 1, Len(readable)))

\* message.substring(0, end): a negative end counts as 0
substring(message, end) == SubSeq(message, 1, IF end < 0 THEN 0 ELSE Min(end, Len(message)))

\* truncateMessage(message, maxLength); maxLength is Undefined when the caller
\* passes undefined, and the parameter then takes its default
truncateMessage(message, maxLength) ==
    LET limit == IF maxLength = Undefined THEN DefaultMaxLength ELSE maxLength
    IN  IF Len(message) <= limit THEN message
        ELSE substring(message, limit - 3) \o "..."

\* the keys of `patterns`, in the order of Object.entries
PatternNames ==
    <<"is not a function", "Cannot read property", "Cannot read properties",
      "Unexpected token", "Module not found", "Failed to fetch",
      "Internal server error", "Objects are not valid as a React child",
      "Cannot update a component while rendering a different component",
      "Invalid hook call", "Assignment to constant variable",
      "ReferenceError", "TypeError", "RangeError", "URIError">>

\* message.match(patternConfig.regex)
PatternMatch(patternName, message) ==
    CASE patternName = "is not a function"      -> MatchIsNotAFunction(message)
      [] patternName = "Cannot read property"   -> MatchCannotReadProperty(message)
      [] patternName = "Cannot read properties" -> MatchCannotReadProperties(message)
      [] patternName = "Unexpected token"       -> MatchUnexpectedToken(message)
      [] patternName = "Module not found"       -> MatchModuleNotFound(message)
      [] patternName = "Cannot update a component while rendering a different component"
                                                -> MatchUpdateWhileRendering(message)
      [] patternName = "ReferenceError"         -> MatchIsNotDefined(message)
      [] patternName \in {"TypeError", "RangeError", "URIError"} -> Found(<<>>)
      [] OTHER                                  -> MatchLiteral(message, patternName)

\* value || fallback for strings
OrElse(value, fallback) == IF value = "" THEN fallback ELSE value

\* patternConfig.handler(match)
PatternHandler(patternName, match) ==
    CASE patternName = "is not a function" ->
            OrElse(trim(match.groups[1]), "variable")
                \o " is not a function. Check if it's properly imported or defined."
      [] patternName = "Cannot read property" ->
            "Cannot read property " \o OrElse(match.groups[1], "property") \o ". The "
                \o OrElse(match.groups[2], "undefined object") \o " might be null or undefined."
      [] patternName = "Cannot read properties" ->
            "Cannot read property " \o OrElse(match.groups[2], "property") \o " of "
                \o OrElse(match.groups[1], "undefined") \o ". Check if the object exists."
      [] patternName = "Unexpected token" ->
            IF match.groups[2] # ""
            THEN "JSON syntax error at position " \o match.groups[2] \o ". Unexpected "
                     \o OrElse(match.groups[1], "token") \o "."
            ELSE "Syntax error: unexpected " \o OrElse(match.groups[1], "token")
                     \o ". Check for missing brackets, commas, or quotes."
      [] patternName = "Module not found" ->
            "Module not found. Check your import path and make sure the package is installed."
      [] patternName = "Failed to fetch" ->
            "Network error: Failed to fetch data. Check your internet connection or API endpoint."
      [] patternName = "Internal server error" ->
            "Server error: An internal server error occurred."
      [] patternName = "Objects are not valid as a React child" ->
            "React error: Cannot render an object directly. Use JSON.stringify or render object properties individually."
      [] patternName = "Cannot update a component while rendering a different component" ->
            "React error: State update during render. Move state updates to useEffect or event handlers."
      [] patternName = "Invalid hook call" ->
            "React hook error: Hooks can only be called at the top level of function components."
      [] patternName = "Assignment to constant variable" ->
            "Cannot reassign a constant variable. Use let or var for variables that need to change."
      [] patternName = "ReferenceError" ->
            "Reference error: " \o OrElse(match.groups[1], "variable")
                \o " is not defined. Check spelling and scope."
      [] patternName = "TypeError" ->
            "Type error: Operation performed on wrong data type. Check your variable types."
      [] patternName = "RangeError" ->
            "Range error: Value is outside the allowed range."
      [] patternName = "URIError" ->
            "URI error: Invalid URI format."

\* error.stack || ""
stackOf(error) == error.stack

\* stack.match(/at (.+?):(\d+):(\d+)/)
MatchLocation(stack) ==
    LET head    == "at "
        Line(i) == RunEnd(stack, i + 1, DigitChars)
        Rest(i) == /\ StartsAt(stack, i, ":")
                   /\ Line(i) >= i + 1
                   /\ StartsAt(stack, Line(i) + 1, ":")
                   /\ RunEnd(stack, Line(i) + 2, DigitChars) >= Line(i) + 2
        rests   == {i \in Positions(stack) : Rest(i)}
        starts  == {p \in Occurrences(stack, head) : LazyGroup(stack, p + Len(head), rests) # 0}
    IN  IF starts = {} THEN NoMatch
        ELSE LET from == Least(starts) + Len(head)
                 g    == LazyGroup(stack, from, rests)
             IN  Found(<<SubSeq(stack, from, g), SubSeq(stack, g + 2, Line(g + 1)),
                         SubSeq(stack, Line(g + 1) + 2,
                                RunEnd(stack, Line(g + 1) + 2, DigitChars))>>)

\* path.split("/").pop()
LastSegment(path) ==
    SubSeq(path, Greatest({0} \cup Occurrences(path, "/")) + 1, Len(path))

\* the first pattern, in the order of the table, that the error selects and
\* whose regular expression matches the message; 0 if there is none
MatchingPattern(message, errorType) ==
    LET lower    == toLowerCase(message)
        selected == {i \in 1..Len(PatternNames) :
                        /\ \/ PatternNames[i] = errorType
                           \/ includes(lower, toLowerCase(PatternNames[i]))
                        /\ PatternMatch(PatternNames[i], message).found}
    IN  IF selected = {} THEN 0 ELSE Least(selected)

\* config.includeLocation !== false
includeLocation(cfg) ==
    IF "includeLocation" \in DOMAIN cfg THEN cfg.includeLocation # FALSE ELSE TRUE

\* ErrorProcessor.humanizeError(error, config)
humanizeError(error, cfg) ==
    LET message   == messageOf(error)
        errorType == error.name
        stack     == stackOf(error)
        pattern   == MatchingPattern(message, errorType)
        location  == IF stack # "" /\ includeLocation(cfg)
                     THEN MatchLocation(stack) ELSE NoMatch
    IN  IF pattern # 0
        THEN truncateMessage(PatternHandler(PatternNames[pattern],
                                            PatternMatch(PatternNames[pattern], message)),
                             Get(cfg, "maxMessageLength"))
        ELSE IF location.found
        THEN truncateMessage(cleanMessage(message) \o " in "
                                 \o OrElse(LastSegment(location.groups[1]), "unknown file")
                                 \o " at line " \o location.groups[2],
                             Get(cfg, "maxMessageLength"))
        ELSE truncateMessage(cleanMessage(message), Get(cfg, "maxMessageLength"))

\* the messages that are never spoken
alwaysIgnore ==
    <<"ResizeObserver loop limit exceeded",
      "Non-Error promise rejection captured with value",
      "Loading chunk",
      "ChunkLoadError">>

\* alwaysIgnore.some((pattern) => message.toLowerCase().includes(pattern.toLowerCase()))
MatchesAlwaysIgnore(message) ==
    \E i \in 1..Len(alwaysIgnore) : includesIgnoreCase(message, alwaysIgnore[i])

\* MatchesAlwaysIgnore of every message of the model, computed once
IgnoreTable == Table([message \in AllMessages |-> MatchesAlwaysIgnore(message)])

\* ErrorProcessor.shouldIgnoreError(error, config)
shouldIgnoreError(error) == IgnoreTable[messageOf(error)]

(***************************************************************************)
(* The policy on its own: config.shouldSpeak and config.updateConfig       *)
(* called directly on a Config, as the unit tests of Config do.            *)
(***************************************************************************)
PolicyErrors == {FetchError, NotAFunctionError, UriError, RejectionError}

PolicyUserConfigs ==
    {[cooldownMs |-> Step],
     [cooldownMs |-> 2 * Step]}

StartTimes == {0, Step}

InitEngineIdle ==
    /\ engine = "browser"
    /\ sinkReady = TRUE
    /\ speechQueue = <<>>
    /\ isSpeaking = FALSE
    /\ sink = {}
    /\ timers = <<>>
    /\ nextSeq = 0
    /\ delivered = <<>>

InitPolicy ==
    /\ InitEngineIdle
    /\ \E userConfig \in PolicyUserConfigs : config = deepMerge(defaultConfig, userConfig)
    /\ lastSpoken = <<>>
    /\ errorCounts = <<>>
    /\ now \in StartTimes
    /\ lastCall = NoCall
    /\ script = NoScript

\* the number of admissions so far
Admissions ==
    LET keys == DOMAIN errorCounts
        RECURSIVE Sum(_)
        Sum(set) == IF set = {} THEN 0
                    ELSE LET key == CHOOSE k \in set : TRUE
                         IN  errorCounts[key] + Sum(set \ {key})
    IN  Sum(keys)

shouldSpeak(error) ==
    LET verdict == shouldSpeakVerdict(error)
    IN  /\ Admissions < MaxCount
        /\ lastCall' = [op |-> "shouldSpeak", arg |-> error, result |-> verdict]
        /\ lastSpoken' = LastSpokenAfter(error, verdict)
        /\ errorCounts' = ErrorCountsAfter(error, verdict)
    /\ UNCHANGED <<engine, sinkReady, config, queueVars, now, script>>

PolicyTick ==
    /\ now < MaxPolicyTicks * Step
    /\ now' = now + Step
    /\ lastCall' = NoCall
    /\ UNCHANGED <<engine, sinkReady, config, ledgerVars, queueVars, script>>

NextPolicy ==
    \/ \E error \in PolicyErrors : shouldSpeak(error)
    \/ PolicyTick

SpecPolicy == InitPolicy /\ [][NextPolicy]_vars

(***************************************************************************)
(* The escalation scenario: the same fault submitted at fixed offsets from *)
(* the clock value at which the Config was constructed.                    *)
(***************************************************************************)
EscalationOffsets == <<0, 5100, 15200, 30300, 45400>>

BaseTimes == {base * Step : base \in 0..MaxBase}

InitEscalation ==
    /\ InitEngineIdle
    /\ config = deepMerge(defaultConfig, [cooldownMs |-> 5000, enabled |-> TRUE])
    /\ lastSpoken = <<>>
    /\ errorCounts = <<>>
    /\ now \in BaseTimes
    /\ lastCall = NoCall
    /\ script = [step |-> 0, base |-> now, log |-> <<>>]

\* the next scripted submission: config.shouldSpeak(error) at the current clock value
ScriptSubmit ==
    LET verdict == shouldSpeakVerdict(FetchError)
    IN  /\ script.step < Len(EscalationOffsets)
        /\ now = script.base + EscalationOffsets[script.step + 1]
        /\ lastCall' = [op |-> "shouldSpeak", arg |-> FetchError, result |-> verdict]
        /\ lastSpoken' = LastSpokenAfter(FetchError, verdict)
        /\ errorCounts' = ErrorCountsAfter(FetchError, verdict)
        /\ script' = [script EXCEPT !.step = @ + 1, !.log = Append(@, verdict = "admitted")]
        /\ UNCHANGED <<engine, sinkReady, config, queueVars, now>>

\* the clock reaches the time of the next scripted submission
ScriptAdvance ==
    /\ script.step >= 1
    /\ script.step < Len(EscalationOffsets)
    /\ now < script.base + EscalationOffsets[script.step + 1]
    /\ now' = script.base + EscalationOffsets[script.step + 1]
    /\ lastCall' = NoCall
    /\ UNCHANGED <<engine, sinkReady, config, ledgerVars, queueVars, script>>

NextEscalation == ScriptSubmit \/ ScriptAdvance

SpecEscalation == InitEscalation /\ [][NextEscalation]_vars

(***************************************************************************)
(* The engine: ErrorNarratorBrowser (src/src/browser.js) or                *)
(* ErrorNarratorNode (src/unnamed/part_004), with its Config, its queue    *)
(* and the speech sink.                                                    *)
(***************************************************************************)
EngineErrors == {FetchError, NotAFunctionError, UriError, RejectionError}

\* the options given to the constructor
EngineUserConfigs == {[cooldownMs |-> Step, filters |-> [onlyPatterns |-> <<"FETCH">>]]}

\* Date.now() when the engine is constructed
EngineStart == Step

\* the arguments of updateConfig
EngineNewConfigs == {[enabled |-> FALSE]}

\* the default argument of test()
TestMessage == "Error narrator is working correctly"

\* the arguments of speak()
SpeakMessages == {"Deploy finished"}

MaxLengths == {defaultConfig.maxMessageLength, 10}

\* humanizeError of every error of the model, computed once
HumanizeTable ==
    Table([pair \in AllErrors \X MaxLengths |->
              humanizeError(pair[1], [maxMessageLength |-> pair[2]])])

\* ErrorProcessor.humanizeError(error, configData)
humanized(error) == HumanizeTable[<<error, config.maxMessageLength>>]

Init ==
    /\ engine \in {"browser", "node"}
    /\ sinkReady \in BOOLEAN
    /\ \E userConfig \in EngineUserConfigs : config = deepMerge(defaultConfig, userConfig)
    /\ lastSpoken = <<>>
    /\ errorCounts = <<>>
    /\ speechQueue = <<>>
    /\ isSpeaking = FALSE
    /\ sink = {}
    /\ timers = <<>>
    /\ now = EngineStart
    /\ nextSeq = 0
    /\ delivered = <<>>
    /\ lastCall = NoCall
    /\ script = NoScript

\* how the engine has the sink speak an utterance under a config: the browser
\* engine sets utterance.rate = configData.rate || 1, pitch and volume alike,
\* and the voice of that name; the node engine passes configData.voice || null
\* and configData.rate || 1.0 to say.speak, and neither pitch nor volume
utteranceSettings(cfg) ==
    [voice |-> cfg.voice,
     rate |-> IF cfg.rate = 0 THEN 1 ELSE cfg.rate,
     pitch |-> IF engine = "node" THEN Undefined ELSE IF cfg.pitch = 0 THEN 1 ELSE cfg.pitch,
     volume |-> IF engine = "node" THEN Undefined ELSE IF cfg.volume = 0 THEN 1 ELSE cfg.volume]

\* the entry that this.speechQueue.push(message) adds: the queue holds the text;
\* seq numbers the pushes, and admitted keeps how the utterance would have been
\* spoken under the config of the moment of the push
pushEntry(message) ==
    [text |-> message, seq |-> nextSeq + 1, admitted |-> utteranceSettings(config)]

\* a variant of shift that takes the newest entry: this.speechQueue.pop()
shift_Newest(queue) ==
    [message |-> queue[Len(queue)], rest |-> SubSeq(queue, 1, Len(queue) - 1)]

\* a variant of shift that leaves the entry in the queue: this.speechQueue[0]
shift_Peek(queue) == [message |-> Head(queue), rest |-> queue]

\* const message = this.speechQueue.shift()
shift(queue) == [message |-> Head(queue), rest |-> SubSeq(queue, 2, Len(queue))]

\* processSpeechQueue() on the given queue, flag and pending timers; `throws`
\* says whether handing the utterance to the sink throws
processSpeechQueue(queue, speaking, pending, throws) ==
    IF speaking \/ Len(queue) = 0
    THEN /\ speechQueue' = queue
         /\ isSpeaking' = speaking
         /\ timers' = pending
         /\ UNCHANGED <<sink, delivered>>
    ELSE LET message == shift(queue).message
         IN  /\ speechQueue' = shift(queue).rest
             /\ IF throws
                THEN /\ isSpeaking' = FALSE
                     /\ timers' = Append(pending, now + SettleDelay)
                     /\ UNCHANGED <<sink, delivered>>
                ELSE /\ isSpeaking' = TRUE
                     /\ timers' = pending
                     /\ sink' = sink \cup {[seq |-> message.seq, text |-> message.text,
                                            cancelled |-> FALSE,
                                            settings |-> utteranceSettings(config),
                                            admitted |-> message.admitted]}
                     /\ delivered' = Append(delivered, message.seq)

\* whether the sink may throw now: a throw schedules a settle timer
MayThrow == IF Len(timers) < MaxTimers THEN BOOLEAN ELSE {FALSE}

\* a variant of speak(message) that does not look at configData.enabled
speakOutcome_IgnoresEnabled(message) ==
    IF ~sinkReady THEN "unavailable" ELSE "queued"

\* a variant of speak(message) that does not look for the sink
speakOutcome_IgnoresSink(message) ==
    IF ~config.enabled THEN "disabled" ELSE "queued"

\* speak(message): the outcome and the new queue state
speakOutcome(message) ==
    IF ~config.enabled THEN "disabled"
    ELSE IF ~sinkReady THEN "unavailable"
    ELSE "queued"

\* a variant of speak(message) that pushes and leaves the dispatch to the timers
speakEffect_NoDispatch(message, throws) ==
    IF speakOutcome(message) = "queued"
    THEN /\ nextSeq' = nextSeq + 1
         /\ speechQueue' = Append(speechQueue, pushEntry(message))
         /\ UNCHANGED <<isSpeaking, sink, timers, delivered>>
    ELSE UNCHANGED queueVars

speakEffect(message, throws) ==
    IF speakOutcome(message) = "queued"
    THEN /\ nextSeq' = nextSeq + 1
         /\ processSpeechQueue(Append(speechQueue, pushEntry(message)),
                               isSpeaking, timers, throws)
    ELSE UNCHANGED queueVars

speak(message) ==
    /\ nextSeq < MaxPushes
    /\ \E throws \in MayThrow : speakEffect(message, throws)
    /\ lastCall' = [op |-> "speak", arg |-> message, result |-> speakOutcome(message)]
    /\ UNCHANGED <<engine, sinkReady, config, ledgerVars, now, script>>

test ==
    /\ nextSeq < MaxPushes
    /\ \E throws \in MayThrow : speakEffect(TestMessage, throws)
    /\ lastCall' = [op |-> "test", arg |-> TestMessage, result |-> speakOutcome(TestMessage)]
    /\ UNCHANGED <<engine, sinkReady, config, ledgerVars, now, script>>

\* the text that handleError would speak: "" stands for null
messageToSpeak(error) ==
    IF config.humanize THEN humanized(error) ELSE messageOf(error)

\* where handleError(error) returns, given the text it would speak and what
\* config.shouldSpeak(error) returns in this state
handleErrorOutcome(error, message, verdict) ==
    IF shouldIgnoreError(error) THEN "ignored"
    ELSE IF message = "" THEN "no message"
    ELSE IF \E i \in 1..Len(speechQueue) : speechQueue[i].text = message THEN "duplicate"
    ELSE IF verdict # "admitted" THEN verdict
    ELSE speakOutcome(message)

\* handleError(error) on the engine's own state
handleErrorEffect(error) ==
    \E message \in {messageToSpeak(error)}, policy \in {shouldSpeakVerdict(error)} :
        \E outcome \in {handleErrorOutcome(error, message, policy)} :
            \E verdict \in {IF outcome \in {"ignored", "no message", "duplicate"}
                             THEN "not called" ELSE policy} :
                /\ nextSeq < MaxPushes
                /\ Admissions < MaxCount
                /\ lastSpoken' = LastSpokenAfter(error, verdict)
                /\ errorCounts' = ErrorCountsAfter(error, verdict)
                /\ IF verdict = "admitted"
                   THEN \E throws \in MayThrow : speakEffect(message, throws)
                   ELSE UNCHANGED queueVars
                /\ lastCall' = [op |-> "handleError", arg |-> error, result |-> outcome]
                /\ UNCHANGED <<engine, sinkReady, config, now>>

handleError(error) == handleErrorEffect(error) /\ UNCHANGED script

\* the sink's cancel operation as clearQueue() invokes it: the browser engine
\* calls window.speechSynthesis.cancel() when the sink is there, the node
\* engine has its say.stop() commented out and calls nothing
sinkAfterCancel ==
    IF engine = "browser" /\ sinkReady
    THEN {[utterance EXCEPT !.cancelled = TRUE] : utterance \in sink}
    ELSE sink

\* a variant of clearQueue() that leaves the pending queue as it is
clearQueueEffect_KeepsQueue ==
    /\ sink' = sinkAfterCancel
    /\ isSpeaking' = FALSE
    /\ UNCHANGED <<speechQueue, timers, nextSeq, delivered>>

\* a variant of clearQueue() that leaves the in-flight flag as it is
clearQueueEffect_KeepsFlag ==
    /\ speechQueue' = <<>>
    /\ sink' = sinkAfterCancel
    /\ UNCHANGED <<isSpeaking, timers, nextSeq, delivered>>

\* the clearQueue() part of the state
clearQueueEffect ==
    /\ speechQueue' = <<>>
    /\ sink' = sinkAfterCancel
    /\ isSpeaking' = FALSE
    /\ UNCHANGED <<timers, nextSeq, delivered>>

\* clearQueue() on the state of the engine
clearQueueCall ==
    /\ clearQueueEffect
    /\ lastCall' = [op |-> "clearQueue", arg |-> "", result |-> ""]
    /\ UNCHANGED <<engine, sinkReady, config, ledgerVars, now>>

clearQueue == clearQueueCall /\ UNCHANGED script

\* a variant of updateConfig that drops what is pending
updateConfig_DropsPending(newConfig) ==
    /\ config' = deepMerge(config, newConfig)
    /\ speechQueue' = <<>>
    /\ lastCall' = [op |-> "updateConfig", arg |-> newConfig, result |-> ""]
    /\ UNCHANGED <<engine, sinkReady, ledgerVars, isSpeaking, sink, timers, nextSeq,
                   delivered, now, script>>

updateConfig(newConfig) ==
    /\ config' = deepMerge(config, newConfig)
    /\ lastCall' = [op |-> "updateConfig", arg |-> newConfig, result |-> ""]
    /\ UNCHANGED <<engine, sinkReady, ledgerVars, queueVars, now, script>>

\* a variant of enable() that also forgets the cooldowns
enable_ForgetsLedger ==
    /\ config' = deepMerge(config, [enabled |-> TRUE])
    /\ lastSpoken' = <<>>
    /\ errorCounts' = <<>>
    /\ lastCall' = [op |-> "enable", arg |-> "", result |-> ""]
    /\ UNCHANGED <<engine, sinkReady, queueVars, now, script>>

enable ==
    /\ config' = deepMerge(config, [enabled |-> TRUE])
    /\ lastCall' = [op |-> "enable", arg |-> "", result |-> ""]
    /\ UNCHANGED <<engine, sinkReady, ledgerVars, queueVars, now, script>>

\* disable() on the state of the engine
disableCall ==
    /\ config' = deepMerge(config, [enabled |-> FALSE])
    /\ clearQueueEffect
    /\ lastCall' = [op |-> "disable", arg |-> "", result |-> ""]
    /\ UNCHANGED <<engine, sinkReady, ledgerVars, now>>

disable == disableCall /\ UNCHANGED script

\* getStatus(): enabled, speaking, queueLength and config of the returned object
getStatus ==
    [enabled     |-> config.enabled,
     speaking    |-> isSpeaking,
     queueLength |-> Len(speechQueue),
     config      |-> config]

\* a completion callback of the utterance: this.isSpeaking = false and
\* setTimeout(() => this.processSpeechQueue(), 100)
completion(name, utterance) ==
    /\ Len(timers) < MaxTimers
    /\ sink' = sink \ {utterance}
    /\ isSpeaking' = FALSE
    /\ timers' = Append(timers, now + SettleDelay)
    /\ lastCall' = [op |-> name, arg |-> utterance.seq, result |-> ""]
    /\ UNCHANGED <<engine, sinkReady, config, ledgerVars, speechQueue, nextSeq, delivered,
                   now, script>>

\* utterance.onend of the browser engine
onend(utterance) == engine = "browser" /\ completion("onend", utterance)

\* a variant of utterance.onerror that only logs the error
onerror_OnlyLogs(utterance) ==
    /\ engine = "browser"
    /\ sink' = sink \ {utterance}
    /\ lastCall' = [op |-> "onerror", arg |-> utterance.seq, result |-> ""]
    /\ UNCHANGED <<engine, sinkReady, config, ledgerVars, speechQueue, isSpeaking, timers,
                   nextSeq, delivered, now, script>>

\* utterance.onerror of the browser engine
onerror(utterance) == engine = "browser" /\ completion("onerror", utterance)

\* the callback given to say.speak by the node engine
sayCallback(utterance) == engine = "node" /\ completion("sayCallback", utterance)

\* a pending setTimeout(() => this.processSpeechQueue(), 100) comes due
settleTimer ==
    /\ Len(timers) > 0
    /\ Head(timers) <= now
    /\ \E throws \in BOOLEAN :
           processSpeechQueue(speechQueue, isSpeaking, Tail(timers), throws)
    /\ lastCall' = [op |-> "settleTimer", arg |-> "", result |-> ""]
    /\ UNCHANGED <<engine, sinkReady, config, ledgerVars, nextSeq, now, script>>

\* Date.now() advances
Tick ==
    /\ now < EngineStart + MaxTicks * Step
    /\ now' = now + Step
    /\ lastCall' = NoCall
    /\ UNCHANGED <<engine, sinkReady, config, ledgerVars, queueVars, script>>

Next ==
    \/ \E error \in EngineErrors : handleError(error)
    \/ \E message \in SpeakMessages : speak(message)
    \/ test
    \/ clearQueue
    \/ \E newConfig \in EngineNewConfigs : updateConfig(newConfig)
    \/ enable
    \/ disable
    \/ \E utterance \in sink : onend(utterance)
    \/ \E utterance \in sink : onerror(utterance)
    \/ \E utterance \in sink : sayCallback(utterance)
    \/ settleTimer
    \/ Tick

Spec == Init /\ [][Next]_vars

(***************************************************************************)
(* The engine fed with faults only, some of which are spoken with a text   *)
(* that differs from their raw message: handleError and the callbacks.     *)
(***************************************************************************)
SpokenErrors == {FetchError, FetchUsersError, ChunkError, ResizeError}

\* the options given to the constructor
SpokenUserConfigs ==
    {[cooldownMs |-> Step],
     [cooldownMs |-> Step, filters |-> [ignorePatterns |-> <<"Network error">>]],
     [cooldownMs |-> Step, humanize |-> FALSE],
     [cooldownMs |-> Step, humanize |-> FALSE, maxMessageLength |-> 10]}

InitSpoken ==
    /\ engine \in {"browser", "node"}
    /\ sinkReady \in BOOLEAN
    /\ \E userConfig \in SpokenUserConfigs : config = deepMerge(defaultConfig, userConfig)
    /\ lastSpoken = <<>>
    /\ errorCounts = <<>>
    /\ speechQueue = <<>>
    /\ isSpeaking = FALSE
    /\ sink = {}
    /\ timers = <<>>
    /\ now = EngineStart
    /\ nextSeq = 0
    /\ delivered = <<>>
    /\ lastCall = NoCall
    /\ script = NoScript

NextSpoken ==
    \/ \E error \in SpokenErrors : handleError(error)
    \/ \E utterance \in sink : onend(utterance)
    \/ \E utterance \in sink : onerror(utterance)
    \/ \E utterance \in sink : sayCallback(utterance)
    \/ settleTimer
    \/ Tick

SpecSpoken == InitSpoken /\ [][NextSpoken]_vars

(***************************************************************************)
(* Single calls on bounded inputs: ErrorProcessor.truncateMessage on a     *)
(* message and a limit, handleError on a thrown value of any shape, and    *)
(* updateConfig on a Config whose ledger may hold an admission.            *)
(* A thrown value is null, a primitive string or an object; of an object   *)
(* the model keeps what its message is (undefined, "", a string, 0 or      *)
(* another number) and whether it has a toString method.                   *)
(***************************************************************************)
\* error.message || error.toString(): the type of the value, or "throws" when
\* the message is falsy and there is no toString to call
rawMessageType(argument) ==
    IF argument.kind = "string" THEN "string"
    ELSE IF argument.message \in {"string", "number"} THEN argument.message
    ELSE IF argument.hasToString THEN "string"
    ELSE "throws"

\* how handleError(argument) ends: `if (!error) return`, then shouldIgnoreError
\* evaluates the message and calls message.toLowerCase() outside any try/catch;
\* with a string message the rest of handleError catches what is thrown
handleErrorCompletion(argument) ==
    IF argument.kind = "null" THEN "returns"
    ELSE IF rawMessageType(argument) \in {"throws", "number"} THEN "throws"
    ELSE "returns"

\* faults given to ErrorProcessor.humanizeError: new TypeError("Assignment to
\* constant variable") and others that one rule, several rules or no rule select
HumanizeInputs ==
    {[name |-> "TypeError", message |-> "Assignment to constant variable", stack |-> ""],
     [name |-> "TypeError", message |-> "Failed to fetch", stack |-> ""],
     [name |-> "TypeError", message |-> "boom", stack |-> ""],
     [name |-> "ReferenceError", message |-> "total is not defined", stack |-> ""],
     [name |-> "ReferenceError", message |-> "render is not a function", stack |-> ""],
     [name |-> "Error", message |-> "total is not defined", stack |-> ""],
     [name |-> "Error", message |-> "Uncaught TypeError: boom", stack |-> ""],
     [name |-> "RangeError", message |-> "Invalid hook call", stack |-> ""],
     [name |-> "Error",
      message |-> "Cannot update a component while rendering a different component",
      stack |-> ""],
     [name |-> "Error",
      message |-> "Cannot update a component (App) while rendering a different component (Child)",
      stack |-> ""],
     NotAFunctionError, FetchError, UriError, StackedError}

InitInputs ==
    /\ InitEngineIdle
    /\ \E userConfig \in PolicyUserConfigs : config = deepMerge(defaultConfig, userConfig)
    /\ lastSpoken = <<>>
    /\ errorCounts = <<>>
    /\ now = EngineStart
    /\ lastCall = NoCall
    /\ script \in
          {[call |-> "truncateMessage", message |-> SubSeq("abcdefghijkl", 1, length),
            maxLength |-> limit, argument |-> [kind |-> "null"], output |-> "",
            done |-> FALSE] : length \in 0..(MaxLen + 1), limit \in 0..MaxLen}
          \cup
          {[call |-> "handleError", message |-> "", maxLength |-> 0, argument |-> argument,
            output |-> "", done |-> FALSE] :
              argument \in {[kind |-> "null"], [kind |-> "string"]}
                  \cup [kind : {"object"},
                        message : {"undefined", "empty", "string", "zero", "number"},
                        hasToString : BOOLEAN]}
          \cup
          {[call |-> "humanizeError", message |-> "", maxLength |-> 0, argument |-> fault,
            output |-> "", done |-> FALSE] : fault \in HumanizeInputs}

\* ErrorProcessor.truncateMessage(message, maxLength) on the input
truncateCall ==
    /\ script.call = "truncateMessage"
    /\ ~script.done
    /\ script' = [script EXCEPT !.output = truncateMessage(script.message, script.maxLength),
                                !.done = TRUE]
    /\ lastCall' = [op |-> "truncateMessage", arg |-> script.message, result |-> ""]
    /\ UNCHANGED <<engine, sinkReady, config, ledgerVars, queueVars, now>>

\* handleError(argument) on the input
handleErrorCall ==
    /\ script.call = "handleError"
    /\ ~script.done
    /\ script' = [script EXCEPT !.output = handleErrorCompletion(script.argument),
                                !.done = TRUE]
    /\ lastCall' = [op |-> "handleError", arg |-> script.argument, result |-> ""]
    /\ UNCHANGED <<engine, sinkReady, config, ledgerVars, queueVars, now>>

\* ErrorProcessor.humanizeError(fault, configData) on the input
humanizeCall ==
    /\ script.call = "humanizeError"
    /\ ~script.done
    /\ \E output \in {humanizeError(script.argument, config)} :
           script' = [script EXCEPT !.output = output,
                                    !.maxLength = config.maxMessageLength,
                                    !.done = TRUE]
    /\ lastCall' = [op |-> "humanizeError", arg |-> script.argument, result |-> ""]
    /\ UNCHANGED <<engine, sinkReady, config, ledgerVars, queueVars, now>>

NextInputs ==
    \/ truncateCall
    \/ handleErrorCall
    \/ humanizeCall
    \/ shouldSpeak(FetchError)
    \/ \E newConfig \in {[enabled |-> FALSE],
                          [cooldownMs |-> 3 * Step, maxMessageLength |-> DefaultMaxLength],
                          [filters |-> [onlyPatterns |-> <<"FETCH">>]],
                          [filters |-> [ignorePatterns |-> <<"Network error">>,
                                        errorTypes |-> <<>>]]} : updateConfig(newConfig)

SpecInputs == InitInputs /\ [][NextInputs]_vars

(***************************************************************************)
(* The engine with a record of what clearQueue() and disable() dropped:    *)
(* script.dropped holds the utterances that were pending at such a call,   *)
(* script.last those that were pending at the latest such call.            *)
(***************************************************************************)
\* the utterances in this.speechQueue
PendingSeqs == {speechQueue[i].seq : i \in 1..Len(speechQueue)}

InitCancel ==
    /\ engine \in {"browser", "node"}
    /\ sinkReady = TRUE
    /\ \E userConfig \in EngineUserConfigs : config = deepMerge(defaultConfig, userConfig)
    /\ lastSpoken = <<>>
    /\ errorCounts = <<>>
    /\ speechQueue = <<>>
    /\ isSpeaking = FALSE
    /\ sink = {}
    /\ timers = <<>>
    /\ now = EngineStart
    /\ nextSeq = 0
    /\ delivered = <<>>
    /\ lastCall = NoCall
    /\ script = [dropped |-> {}, last |-> {}]

clearQueueRecorded ==
    /\ clearQueueCall
    /\ script' = [dropped |-> script.dropped \cup PendingSeqs, last |-> PendingSeqs]

disableRecorded ==
    /\ disableCall
    /\ script' = [dropped |-> script.dropped \cup PendingSeqs, last |-> PendingSeqs]

NextCancel ==
    \/ handleError(FetchError)
    \/ \E message \in SpeakMessages : speak(message)
    \/ clearQueueRecorded
    \/ disableRecorded
    \/ enable
    \/ \E utterance \in sink : onend(utterance)
    \/ \E utterance \in sink : onerror(utterance)
    \/ \E utterance \in sink : sayCallback(utterance)
    \/ settleTimer
    \/ Tick

SpecCancel == InitCancel /\ [][NextCancel]_vars

(***************************************************************************)
(* The burst scenario: faults that humanize to the same sentence reach     *)
(* handleError of a fresh engine one after the other, each less than       *)
(* cooldownMs after the first.  script.log keeps where each call returned  *)
(* and whether the sink threw at the hand-over.                            *)
(***************************************************************************)
InitBurst ==
    /\ engine \in {"browser", "node"}
    /\ sinkReady = TRUE
    /\ \E userConfig \in {[cooldownMs |-> 2 * Step], [cooldownMs |-> 50 * Step]} :
           config = deepMerge(defaultConfig, userConfig)
    /\ lastSpoken = <<>>
    /\ errorCounts = <<>>
    /\ speechQueue = <<>>
    /\ isSpeaking = FALSE
    /\ sink = {}
    /\ timers = <<>>
    /\ now = EngineStart
    /\ nextSeq = 0
    /\ delivered = <<>>
    /\ lastCall = NoCall
    /\ script = [step |-> 0, base |-> now, log |-> <<>>]

\* the next fault of the burst: window "error" event -> this.handleError(event.error)
BurstSubmit(error) ==
    /\ script.step < MaxBurst
    /\ handleErrorEffect(error)
    /\ script' = [step |-> script.step + 1,
                  base |-> IF script.step = 0 THEN now ELSE script.base,
                  log |-> Append(script.log,
                                 [outcome |-> lastCall'.result,
                                  threw |-> /\ nextSeq' # nextSeq
                                            /\ delivered' = delivered
                                            /\ speechQueue' = speechQueue])]

\* Date.now() advances, staying less than cooldownMs after the first fault
BurstTick ==
    /\ script.step >= 1 => now + Step - script.base < config.cooldownMs
    /\ Tick

NextBurst ==
    \/ \E error \in {FetchError, FetchUsersError} : BurstSubmit(error)
    \/ \E utterance \in sink : onend(utterance)
    \/ \E utterance \in sink : onerror(utterance)
    \/ \E utterance \in sink : sayCallback(utterance)
    \/ settleTimer
    \/ BurstTick

SpecBurst == InitBurst /\ [][NextBurst]_vars

(***************************************************************************)
(* The host-wide fault hooks of one engine.  script.listeners counts the   *)
(* listeners that setupGlobalHandlers has registered with the host for a   *)
(* fault event; the host dispatches an event by calling the registered     *)
(* listeners one after the other, before anything else runs: script.fired  *)
(* is the number of listeners of the dispatch under way (or of the last    *)
(* one), script.pending the number it has still to call, script.calls the  *)
(* number of calls of handleError it has made, script.error the fault of   *)
(* the event.                                                              *)
(***************************************************************************)
InitHooks ==
    /\ engine \in {"browser", "node"}
    /\ sinkReady = TRUE
    /\ \E userConfig \in EngineUserConfigs : config = deepMerge(defaultConfig, userConfig)
    /\ lastSpoken = <<>>
    /\ errorCounts = <<>>
    /\ speechQueue = <<>>
    /\ isSpeaking = FALSE
    /\ sink = {}
    /\ timers = <<>>
    /\ now = EngineStart
    /\ nextSeq = 0
    /\ delivered = <<>>
    /\ lastCall = NoCall
    /\ \E autoSetup \in BOOLEAN :
           script = [listeners |-> IF autoSetup THEN 1 ELSE 0,
                     fired |-> 0, pending |-> 0, calls |-> 0, error |-> FetchError]

\* setupGlobalHandlers(): window.addEventListener / process.on with a new closure
setupGlobalHandlers ==
    /\ script.pending = 0
    /\ script.listeners < MaxActivations
    /\ script' = [script EXCEPT !.listeners = @ + 1]
    /\ lastCall' = [op |-> "setupGlobalHandlers", arg |-> "", result |-> ""]
    /\ UNCHANGED <<engine, sinkReady, config, ledgerVars, queueVars, now>>

\* the host raises a fault event (window "error", process "unhandledRejection")
\* and starts calling the listeners registered for it
hostEvent(error) ==
    /\ script.pending = 0
    /\ script' = [script EXCEPT !.fired = script.listeners,
                                !.pending = script.listeners,
                                !.calls = 0,
                                !.error = error]
    /\ lastCall' = [op |-> "hostEvent", arg |-> error, result |-> ""]
    /\ UNCHANGED <<engine, sinkReady, config, ledgerVars, queueVars, now>>

\* the next registered listener runs: (event) => { this.handleError(event.error) }
listenerCall ==
    /\ script.pending > 0
    /\ handleErrorEffect(script.error)
    /\ script' = [script EXCEPT !.pending = @ - 1, !.calls = @ + 1]

NextHooks ==
    \/ setupGlobalHandlers
    \/ \E error \in EngineErrors : hostEvent(error)
    \/ listenerCall
    \/ script.pending = 0 /\ \E utterance \in sink : onend(utterance)
    \/ script.pending = 0 /\ \E utterance \in sink : onerror(utterance)
    \/ script.pending = 0 /\ \E utterance \in sink : sayCallback(utterance)
    \/ script.pending = 0 /\ settleTimer
    \/ script.pending = 0 /\ Tick

SpecHooks == InitHooks /\ [][NextHooks]_vars

(***************************************************************************)
(* The entry point (src/src/index.js): the module variables ErrorNarrator  *)
(* and globalInstance, the factories and the free functions.  An engine is *)
(* named by the order of its construction, 0 stands for null.              *)
(* script.loaded says whether ErrorNarrator holds the implementation,      *)
(* script.constructed counts the engines constructed so far,               *)
(* script.awaiting holds the suspended setupErrorNarratorAsync calls in    *)
(* the order in which they resume: a call waits for import("./browser.js") *)
(* or for the promise of createErrorNarratorAsync, which holds the engine  *)
(* that the factory has constructed; script.used holds the engines that a  *)
(* call has operated on or returned.                                       *)
(***************************************************************************)
InitGlobal ==
    /\ engine \in {"browser", "node"}
    /\ sinkReady = TRUE
    /\ config = defaultConfig
    /\ lastSpoken = <<>>
    /\ errorCounts = <<>>
    /\ speechQueue = <<>>
    /\ isSpeaking = FALSE
    /\ sink = {}
    /\ timers = <<>>
    /\ now = EngineStart
    /\ nextSeq = 0
    /\ delivered = <<>>
    /\ lastCall = NoCall
    /\ script = [loaded |-> engine = "node", globalInstance |-> 0, constructed |-> 0,
                 awaiting |-> <<>>, used |-> {}]

\* the engines of the entry point leave the state of the modelled engine alone
GlobalFrame == UNCHANGED <<engine, sinkReady, config, ledgerVars, queueVars, now>>

\* if (!globalInstance) { globalInstance = createErrorNarrator(options) }, then
\* the use of globalInstance: createErrorNarrator throws while ErrorNarrator is
\* not set, and constructs an engine otherwise
useGlobalInstance(name) ==
    /\ script.constructed < MaxInstances
    /\ IF script.globalInstance # 0
       THEN /\ script' = [script EXCEPT !.used = @ \cup {script.globalInstance}]
            /\ lastCall' = [op |-> name, arg |-> script.globalInstance, result |-> "returns"]
       ELSE IF ~script.loaded
       THEN /\ script' = script
            /\ lastCall' = [op |-> name, arg |-> 0, result |-> "throws"]
       ELSE /\ script' = [script EXCEPT !.constructed = @ + 1,
                                       !.globalInstance = script.constructed + 1,
                                       !.used = @ \cup {script.constructed + 1}]
            /\ lastCall' = [op |-> name, arg |-> script.constructed + 1, result |-> "returns"]
    /\ GlobalFrame

\* setupErrorNarrator(options)
setupErrorNarrator == useGlobalInstance("setupErrorNarrator")

\* the free functions speak, handleError, enable, disable and test
globalCall(name) == useGlobalInstance(name)

\* setupErrorNarratorAsync(options) up to its await: createErrorNarratorAsync
\* constructs the engine within the call when ErrorNarrator is set, and
\* awaits import("./browser.js") otherwise
setupErrorNarratorAsync ==
    /\ script.constructed < MaxInstances
    /\ IF script.globalInstance # 0
       THEN /\ script' = [script EXCEPT !.used = @ \cup {script.globalInstance}]
            /\ lastCall' = [op |-> "setupErrorNarratorAsync", arg |-> script.globalInstance,
                            result |-> "returns"]
       ELSE /\ Len(script.awaiting) < MaxAsync
            /\ IF script.loaded
               THEN script' = [script EXCEPT
                                  !.constructed = @ + 1,
                                  !.awaiting = Append(@, [stage |-> "assign",
                                                          instance |-> script.constructed + 1])]
               ELSE script' = [script EXCEPT
                                  !.awaiting = Append(@, [stage |-> "import", instance |-> 0])]
            /\ lastCall' = [op |-> "setupErrorNarratorAsync", arg |-> 0, result |-> "awaits"]
    /\ GlobalFrame

\* the suspended call that is first to resume goes on: after the import it
\* sets ErrorNarrator, constructs the engine and awaits the promise of the
\* factory; after that promise it assigns globalInstance and returns it
resumeAsync ==
    /\ script.awaiting # <<>>
    /\ script.constructed < MaxInstances
    /\ LET call == Head(script.awaiting)
       IN  IF call.stage = "import"
           THEN /\ script' = [script EXCEPT
                                 !.loaded = TRUE,
                                 !.constructed = @ + 1,
                                 !.awaiting = Append(Tail(@),
                                                     [stage |-> "assign",
                                                      instance |-> script.constructed + 1])]
                /\ lastCall' = [op |-> "resumeAsync", arg |-> 0, result |-> "awaits"]
           ELSE /\ script' = [script EXCEPT !.globalInstance = call.instance,
                                            !.awaiting = Tail(@),
                                            !.used = @ \cup {call.instance}]
                /\ lastCall' = [op |-> "resumeAsync", arg |-> call.instance,
                                result |-> "returns"]
    /\ GlobalFrame

\* import("./browser.js").then((module) => { ErrorNarrator = module.default })
moduleLoaded ==
    /\ engine = "browser"
    /\ ~script.loaded
    /\ script' = [script EXCEPT !.loaded = TRUE]
    /\ lastCall' = [op |-> "moduleLoaded", arg |-> 0, result |-> ""]
    /\ GlobalFrame

NextGlobal ==
    \/ setupErrorNarrator
    \/ setupErrorNarratorAsync
    \/ resumeAsync
    \/ \E name \in {"speak", "handleError", "enable", "disable", "test"} : globalCall(name)
    \/ moduleLoaded

SpecGlobal == InitGlobal /\ [][NextGlobal]_vars

(***************************************************************************)
(* The queue left to itself: speak() on an enabled engine whose sink takes *)
(* every utterance and completes it, the completion callbacks, the settle  *)
(* timer and updateConfig; no clearQueue, no disable.  The repository has  *)
(* two browser engines: src/src/browser.js, and a TypeScript source        *)
(* (src/unnamed/part_004:310-594) whose processSpeechQueue returns when    *)
(* the entry it has taken off the queue is falsy; script.typed says that   *)
(* the engine is the TypeScript one.                                       *)
(***************************************************************************)
InitDrain ==
    /\ engine \in {"browser", "node"}
    /\ sinkReady = TRUE
    /\ config = defaultConfig
    /\ lastSpoken = <<>>
    /\ errorCounts = <<>>
    /\ speechQueue = <<>>
    /\ isSpeaking = FALSE
    /\ sink = {}
    /\ timers = <<>>
    /\ now = EngineStart
    /\ nextSeq = 0
    /\ delivered = <<>>
    /\ lastCall = NoCall
    /\ \E typed \in (IF engine = "browser" THEN BOOLEAN ELSE {FALSE}) :
           script = [typed |-> typed]

\* processSpeechQueue() of the engine, the sink not throwing:
\* const message = this.speechQueue.shift(); if (!message) return;
processSpeechQueueTyped(queue, speaking, pending) ==
    IF script.typed /\ ~speaking /\ Len(queue) > 0 /\ shift(queue).message.text = ""
    THEN /\ speechQueue' = shift(queue).rest
         /\ isSpeaking' = speaking
         /\ timers' = pending
         /\ UNCHANGED <<sink, delivered>>
    ELSE processSpeechQueue(queue, speaking, pending, FALSE)

\* speak(message): this.speechQueue.push(message); this.processSpeechQueue()
drainSpeak(message) ==
    /\ nextSeq < MaxPushes
    /\ speakOutcome(message) = "queued"
    /\ nextSeq' = nextSeq + 1
    /\ processSpeechQueueTyped(Append(speechQueue, pushEntry(message)),
                               isSpeaking, timers)
    /\ lastCall' = [op |-> "speak", arg |-> message, result |-> "queued"]
    /\ UNCHANGED <<engine, sinkReady, config, ledgerVars, now, script>>

\* a pending setTimeout(() => this.processSpeechQueue(), 100) comes due
drainTimer ==
    /\ Len(timers) > 0
    /\ Head(timers) <= now
    /\ processSpeechQueueTyped(speechQueue, isSpeaking, Tail(timers))
    /\ lastCall' = [op |-> "settleTimer", arg |-> "", result |-> ""]
    /\ UNCHANGED <<engine, sinkReady, config, ledgerVars, nextSeq, now, script>>

\* the clock reaches the time at which the next settle timer is due
drainTick ==
    /\ timers # <<>>
    /\ Head(timers) > now
    /\ now' = Head(timers)
    /\ lastCall' = NoCall
    /\ UNCHANGED <<engine, sinkReady, config, ledgerVars, queueVars, script>>

\* the sink completes the utterance in flight
sinkCompletes == \E utterance \in sink : onend(utterance) \/ sayCallback(utterance)

NextDrain ==
    \/ \E message \in {"", "Deploy finished"} : drainSpeak(message)
    \/ sinkCompletes
    \/ \E utterance \in sink : onerror(utterance)
    \/ drainTimer
    \/ drainTick
    \/ \E newConfig \in {[rate |-> 2], [voice |-> "Alex"]} : updateConfig(newConfig)

\* the sink completes every delivery, timers fire and time passes
SpecDrain ==
    /\ InitDrain
    /\ [][NextDrain]_vars
    /\ WF_vars(sinkCompletes)
    /\ WF_vars(drainTimer)
    /\ WF_vars(drainTick)

(***************************************************************************)
(* Properties of the policy.                                               *)
(***************************************************************************)
\* this step is a call of config.shouldSpeak(error)
CalledShouldSpeak(error) == lastCall'.op = "shouldSpeak" /\ lastCall'.arg = error

\* error passes the three filters of the current config
PassesFilters(error) ==
    /\ ~MatchesIgnorePattern(messageOf(error))
    /\ ~ErrorTypeFiltered(errorTypeOf(error))
    /\ ~OnlyPatternsFiltered(messageOf(error))

\* C5: after a fault was admitted at time t (any t, 0 included), every fault
\* submitted less than cooldownMs later is dropped whatever its key, and a fault
\* with another, never admitted key that passes the filters is admitted once
\* cooldownMs has elapsed.
C5_GlobalCooldownDropsEveryKey ==
    [][\A error \in PolicyErrors :
         (CalledShouldSpeak(error) /\ config.enabled /\ GlobalKey \in DOMAIN lastSpoken) =>
            /\ (now - lastSpoken[GlobalKey] < config.cooldownMs)
                  => lastCall'.result # "admitted"
            /\ (/\ now - lastSpoken[GlobalKey] >= config.cooldownMs
                /\ errorKeyOf(error) \notin DOMAIN lastSpoken
                /\ PassesFilters(error))
                  => lastCall'.result = "admitted"]_vars

\* C6: a key admitted n >= 1 times, last at time L, submitted again when the
\* global cooldown has elapsed and the filters pass, is dropped exactly when
\* now - L < cooldownMs * min(n + 1, 5).
C6_EscalatingCooldown ==
    [][\A error \in PolicyErrors :
         LET key == errorKeyOf(error)
         IN  (/\ CalledShouldSpeak(error)
              /\ config.enabled
              /\ key \in DOMAIN errorCounts
              /\ errorCounts[key] >= 1
              /\ now - lastSpoken[GlobalKey] >= config.cooldownMs
              /\ PassesFilters(error))
             => (lastCall'.result # "admitted"
                   <=> now - lastSpoken[key]
                         < config.cooldownMs * Min(errorCounts[key] + 1, 5))]_vars

\* C8: the admission times of a key are strictly increasing, and an admission
\* comes at least cooldownMs * min(k, 5) after the previous admission of the key,
\* k being the admit count of the key at that moment.
C8_AdmissionGaps ==
    [][\A key \in DOMAIN errorCounts :
         errorCounts'[key] # errorCounts[key] =>
            /\ lastSpoken'[key] > lastSpoken[key]
            /\ lastSpoken'[key] - lastSpoken[key]
                  >= config.cooldownMs * Min(errorCounts[key], 5)]_vars

\* C10: an admission at time now sets the global time and the time of the key to
\* now and adds exactly 1 to the count of the key; no other entry changes.
C10_AdmitUpdatesLedger ==
    [][\A error \in PolicyErrors :
         (CalledShouldSpeak(error) /\ lastCall'.result = "admitted") =>
            LET key == errorKeyOf(error)
            IN  /\ DOMAIN lastSpoken' = DOMAIN lastSpoken \cup {GlobalKey, key}
                /\ DOMAIN errorCounts' = DOMAIN errorCounts \cup {key}
                /\ lastSpoken'[GlobalKey] = now
                /\ lastSpoken'[key] = now
                /\ errorCounts'[key] = (IF key \in DOMAIN errorCounts
                                        THEN errorCounts[key] ELSE 0) + 1
                /\ \A other \in DOMAIN lastSpoken \ {GlobalKey, key} :
                      lastSpoken'[other] = lastSpoken[other]
                /\ \A other \in DOMAIN errorCounts \ {key} :
                      errorCounts'[other] = errorCounts[other]]_vars

\* C10 witness: a key was admitted for the second time while another key is in the ledger
C10_Witness ==
    /\ lastCall.op = "shouldSpeak"
    /\ lastCall.result = "admitted"
    /\ errorCounts[errorKeyOf(lastCall.arg)] >= 2
    /\ Cardinality(DOMAIN errorCounts) >= 2
    /\ lastSpoken[GlobalKey] > 0

\* the number of admitted submissions among the first count entries of the log
AdmittedAmong(log, count) == Cardinality({i \in 1..count : log[i]})

CompletionOps == {"onend", "onerror", "sayCallback"}

\* the utterances in the hands of the sink that no clearQueue has cancelled
Live == {utterance \in sink : ~utterance.cancelled}

\* C1: at most one utterance handed to the sink is waiting for its completion,
\* even when the utterances that clearQueue cancelled are not counted.
C1_AtMostOneOutstanding == Cardinality(Live) <= 1

\* C2: the completion callback of an utterance that clearQueue or disable
\* cancelled leaves the in-flight flag as it is.
C2_LateCompletionIgnored ==
    [][(/\ lastCall'.op \in CompletionOps
        /\ \E utterance \in sink : utterance.seq = lastCall'.arg /\ utterance.cancelled)
       => isSpeaking' = isSpeaking]_vars

\* C3: utterances are handed to the sink in the order in which they were
\* pushed to the queue.
C3_DeliveredInPushOrder ==
    \A i, j \in 1..Len(delivered) : i < j => delivered[i] < delivered[j]

\* two utterances waited in the queue, a completion and a settle timer have
\* handed over the older one, the newer one still waits
C3_Witness ==
    /\ lastCall.op = "settleTimer"
    /\ Len(delivered) >= 2
    /\ Len(speechQueue) >= 1

\* C4: no two pending utterances have the same text.
C4_NoDuplicatePending ==
    \A i, j \in 1..Len(speechQueue) : i # j => speechQueue[i].text # speechQueue[j].text

\* the ways in which the policy of handleError rejects a fault
Rejections ==
    {"disabled", "duplicate", "global cooldown", "specific cooldown",
     "ignore pattern", "error type", "only patterns"}

\* C9: a handleError call that the policy rejects, for whatever reason, leaves
\* lastSpoken and errorCounts as they were.
C9_RejectionKeepsLedger ==
    [][(lastCall'.op = "handleError" /\ lastCall'.result \in Rejections)
       => UNCHANGED ledgerVars]_vars

\* a fault has been rejected by a filter after another fault was admitted
C9_Witness ==
    /\ lastCall.op = "handleError"
    /\ lastCall.result \in {"ignore pattern", "error type", "only patterns"}
    /\ GlobalKey \in DOMAIN lastSpoken

(***************************************************************************)
(* Properties of the text that handleError speaks.                         *)
(***************************************************************************)
\* the raw messages and the humanized texts of the errors of the model, and
\* the texts given to speak() and test()
SpokenTexts ==
    AllMessages \cup {HumanizeTable[pair] : pair \in DOMAIN HumanizeTable}
        \cup SpeakMessages \cup {TestMessage}

\* whether a text contains an always-ignore pattern, computed once
AlwaysIgnoreTable == Table([text \in SpokenTexts |-> MatchesAlwaysIgnore(text)])

\* whether a text contains a pattern of the model, computed once
SpokenMatchTable ==
    Table([pair \in SpokenTexts \X AllPatterns |-> includesIgnoreCase(pair[1], pair[2])])

\* this step is a call of handleError(error)
CalledHandleError(error) == lastCall'.op = "handleError" /\ lastCall'.arg = error

\* this step pushes nothing, hands nothing to the sink and keeps the ledger
NothingAdmitted == UNCHANGED <<speechQueue, nextSeq, sink, delivered, ledgerVars>>

\* C11: a fault whose raw message or whose humanized text contains an
\* always-ignore pattern, whatever the case of the letters, is never admitted by
\* handleError: nothing is pushed, nothing is handed to the sink and the ledger
\* stays as it was, for every config.
C11_AlwaysIgnoreNeverAdmitted ==
    [][\A error \in SpokenErrors :
         (/\ CalledHandleError(error)
          /\ \/ AlwaysIgnoreTable[messageOf(error)]
             \/ AlwaysIgnoreTable[humanized(error)])
         => NothingAdmitted]_vars

\* the texts of the pending utterances
PendingTexts == {speechQueue[i].text : i \in 1..Len(speechQueue)}

\* a text contains an entry of config.filters.ignorePatterns
SpokenTextIgnored(text) ==
    \E pattern \in SeqToSet(config.filters.ignorePatterns) : SpokenMatchTable[<<text, pattern>>]

\* C12: speak(text) pushes text only if the policy admits it: a call made
\* while the global cooldown of an earlier admission runs, or with a text that
\* is already pending, or with a text that contains an ignore pattern, pushes
\* nothing, and a call that pushes its text records the admission in the ledger.
C12_SpeakSubjectToPolicy ==
    [][\A text \in SpeakMessages :
         (lastCall'.op = "speak" /\ lastCall'.arg = text) =>
            /\ (\/ GlobalCooldownActive
                \/ text \in PendingTexts
                \/ SpokenTextIgnored(text))
                  => UNCHANGED <<speechQueue, nextSeq, sink, delivered>>
            /\ nextSeq' # nextSeq
                  => /\ GlobalKey \in DOMAIN lastSpoken'
                     /\ lastSpoken'[GlobalKey] = now]_vars

\* C13: two faults of the same kind whose different raw messages humanize to
\* the same sentence share one ledger key: while the escalating cooldown of the
\* key of one of them runs, handleError admits neither of them.
C13_SameSentenceSharesCooldown ==
    [][\A error, other \in SpokenErrors :
         LET key == errorKeyOf(other)
         IN  (/\ CalledHandleError(error)
              /\ config.humanize
              /\ errorTypeOf(error) = errorTypeOf(other)
              /\ humanized(error) = humanized(other)
              /\ key \in DOMAIN lastSpoken
              /\ now - lastSpoken[key] < specificCooldown(CountOf(errorCounts, key)))
             => NothingAdmitted]_vars

\* C14: when an entry of filters.ignorePatterns is a substring, whatever the
\* case of the letters, of the text that would be spoken (the humanized text
\* when humanize is on, the raw message otherwise), handleError drops the fault
\* and pushes nothing.
C14_IgnorePatternOnSpokenText ==
    [][\A error \in SpokenErrors :
         (CalledHandleError(error) /\ SpokenTextIgnored(messageToSpeak(error)))
         => UNCHANGED <<speechQueue, nextSeq, sink, delivered>>]_vars

(***************************************************************************)
(* Properties of enable, disable and clearQueue.                           *)
(***************************************************************************)
\* C15: while enabled is false, also right after disable() has returned, a
\* call of handleError or of speak (test() is speak with its default text)
\* leaves the pending queue, the in-flight flag and the ledger as they were and
\* hands nothing to the sink.
C15_DisabledCallsChangeNothing ==
    [][(lastCall'.op \in {"handleError", "speak", "test"} /\ ~config.enabled)
       => UNCHANGED <<speechQueue, isSpeaking, sink, delivered, nextSeq, ledgerVars>>]_vars

\* a fault was submitted to the disabled engine after an admission and after
\* the utterance in flight was cancelled
C15_Witness ==
    /\ lastCall.op = "handleError"
    /\ lastCall.result = "disabled"
    /\ ~config.enabled
    /\ GlobalKey \in DOMAIN lastSpoken
    /\ \E utterance \in sink : utterance.cancelled

\* C16: an utterance that was pending when clearQueue() or disable() was
\* called is never handed to the sink afterwards, whatever completion callbacks
\* and settle timers fire later; and as long as the engine stays disabled after
\* disable(), the queue stays empty and nothing more is handed to the sink.
C16_DroppedNeverDelivered ==
    /\ [](\A i \in 1..Len(delivered) : delivered[i] \notin script.dropped)
    /\ [][(~config.enabled /\ ~config'.enabled)
            => (speechQueue' = <<>> /\ delivered' = delivered)]_vars

\* disable() dropped a pending utterance while another one was in flight; the
\* completion of that one and the settle timer have fired since
C16_Witness ==
    /\ script.dropped # {}
    /\ lastCall.op = "settleTimer"
    /\ ~config.enabled
    /\ speechQueue = <<>>
    /\ sink = {}
    /\ Len(delivered) >= 1

\* C17: from any reachable state, getStatus() called right after clearQueue()
\* reports a queue length of 0 and speaking = false.
C17_StatusAfterClearQueue ==
    [][lastCall'.op = "clearQueue"
       => (getStatus'.queueLength = 0 /\ getStatus'.speaking = FALSE)]_vars

\* clearQueue() has just dropped pending utterances while the sink held one
C17_Witness ==
    /\ lastCall.op = "clearQueue"
    /\ script.last # {}
    /\ sink # {}
    /\ getStatus.queueLength = 0

\* the state of the engine: its config, its ledger, its queue and its sink
engineState == <<config, ledgerVars, queueVars>>

\* C18: a second enable() right after enable() leaves the state that the
\* first one left, a second disable() right after disable() leaves the state
\* that the first one left, and after any disable(), from any state, enabled is
\* false, the pending queue is empty and nothing is marked in flight.
C18_EnableDisableIdempotent ==
    [][/\ (lastCall.op = "enable" /\ lastCall'.op = "enable") => UNCHANGED engineState
       /\ (lastCall.op = "disable" /\ lastCall'.op = "disable") => UNCHANGED engineState
       /\ lastCall'.op = "disable"
              => (~config'.enabled /\ speechQueue' = <<>> /\ ~isSpeaking')]_vars

\* disable() has just dropped pending utterances while the sink held one
C18_Witness ==
    /\ lastCall.op = "disable"
    /\ script.last # {}
    /\ sink # {}
    /\ ~config.enabled
    /\ speechQueue = <<>>
    /\ ~isSpeaking

\* C19: clearQueue() or disable() called while an utterance is in flight
\* invokes the cancel operation of the sink, so that every utterance the sink
\* holds is aborted, in the browser engine and in the node engine alike.
C19_ClearCancelsInFlight ==
    [][(lastCall'.op \in {"clearQueue", "disable"} /\ isSpeaking /\ sink # {})
       => \A utterance \in sink' : utterance.cancelled]_vars

\* C20: clearQueue(), disable(), enable() and updateConfig() leave lastSpoken
\* and errorCounts as they were, and a fault submitted while a cooldown that
\* the ledger records is running, the global one or the one of its key, is not
\* admitted, also after such calls.
C20_ControlCallsKeepLedger ==
    [][/\ lastCall'.op \in {"clearQueue", "disable", "enable", "updateConfig"}
              => UNCHANGED ledgerVars
       /\ \A error \in EngineErrors :
              (/\ CalledHandleError(error)
               /\ GlobalCooldownActive \/ SpecificCooldownActive(errorKeyOf(error)))
              => NothingAdmitted]_vars

\* a fault was dropped by the global cooldown of an admission that came
\* before a clearQueue() or disable(), the engine being enabled again
C20_Witness ==
    /\ lastCall.op = "handleError"
    /\ lastCall.result = "global cooldown"
    /\ config.enabled
    /\ \E utterance \in sink : utterance.cancelled /\ utterance.seq = nextSeq
    /\ speechQueue = <<>>

(***************************************************************************)
(* Properties of the queue and of the in-flight flag.                      *)
(***************************************************************************)
\* C21: in every reachable state the in-flight flag, which getStatus()
\* reports as speaking, is true exactly when one utterance handed to the sink
\* still waits for its completion; utterances that clearQueue() cancelled in
\* the sink are not counted.
C21_FlagIffOneOutstanding ==
    getStatus.speaking <=> Cardinality(Live) = 1

\* this step took utterances off the queue, or pushed one, without leaving
\* them pending or handing them to the sink, and is no clearQueue() or
\* disable(): the sink threw on delivery
SinkThrew ==
    /\ lastCall'.op \in {"handleError", "speak", "test", "settleTimer"}
    /\ delivered' = delivered
    /\ Len(speechQueue') < Len(speechQueue) + (nextSeq' - nextSeq)

\* C22: when the sink reports an error for the utterance in flight (onerror,
\* the callback of say.speak) or throws on delivery, the in-flight flag is
\* cleared and a settle timer is scheduled exactly as after onend; the timer
\* that fires with nothing in flight takes the head of the queue; and pending
\* utterances with nothing in flight always have such a timer ahead of them.
C22_SinkFailureAdvancesQueue ==
    /\ []((speechQueue # <<>> /\ ~isSpeaking) => timers # <<>>)
    /\ [][/\ lastCall'.op \in CompletionOps
              => /\ ~isSpeaking'
                 /\ timers' = Append(timers, now + SettleDelay)
                 /\ speechQueue' = speechQueue
          /\ SinkThrew
              => /\ ~isSpeaking'
                 /\ timers' # <<>>
                 /\ timers'[Len(timers')] = now + SettleDelay
          /\ (lastCall'.op = "settleTimer" /\ ~isSpeaking /\ speechQueue # <<>>)
              => speechQueue' = Tail(speechQueue)]_vars

\* the sink has reported an error for the utterance in flight while another
\* utterance was pending: the flag is cleared and the settle timer is set
C22_Witness ==
    /\ lastCall.op = "onerror"
    /\ speechQueue # <<>>
    /\ ~isSpeaking
    /\ timers # <<>>
    /\ \A utterance \in sink : utterance.seq # lastCall.arg

\* C23: no utterance is handed to the sink less than the settle delay after
\* the completion of the previous one; in particular the call that follows the
\* completion of the latest utterance at the same clock value hands nothing to
\* the sink.
C23_SettleDelayBeforeDelivery ==
    [][(/\ lastCall.op \in CompletionOps
        /\ delivered # <<>>
        /\ lastCall.arg = delivered[Len(delivered)]
        /\ now' < now + SettleDelay)
       => delivered' = delivered]_vars

\* the utterances of a queue, in its order
QueueSeqs(queue) == [i \in 1..Len(queue) |-> queue[i].seq]

C25_NoSinkStillRecordsAdmission ==
    [][\A error \in SpokenErrors :
         LET key == errorKeyOf(error)
         IN  (/\ CalledHandleError(error)
              /\ ~sinkReady
              /\ config.enabled
              /\ ~shouldIgnoreError(error)
              /\ messageToSpeak(error) # ""
              /\ ~GlobalCooldownActive
              /\ ~SpecificCooldownActive(key)
              /\ PassesFilters(error))
             => /\ lastSpoken' = Put(Put(lastSpoken, GlobalKey, now), key, now)
                /\ errorCounts' = Put(errorCounts, key, CountOf(errorCounts, key) + 1)
                /\ UNCHANGED queueVars]_vars

\* without a sink a fault has been admitted for the second time: its count is
\* 2 and nothing was ever pushed
C25_Witness ==
    /\ ~sinkReady
    /\ lastCall.op = "handleError"
    /\ lastCall.result = "unavailable"
    /\ errorCounts[errorKeyOf(lastCall.arg)] = 2
    /\ lastSpoken[GlobalKey] = now
    /\ nextSeq = 0
    /\ sink = {}

(***************************************************************************)
(* Properties of single calls.                                             *)
(***************************************************************************)
\* C29: for every message and every maxLength >= 0 truncateMessage returns a
\* string of at most maxLength characters, and for a message longer than
\* maxLength the result ends with "..." and still has at most maxLength
\* characters.
C29_TruncateWithinLimit ==
    (script.call = "truncateMessage" /\ script.done) =>
        /\ Len(script.output) <= script.maxLength
        /\ Len(script.message) > script.maxLength
              => /\ Len(script.output) >= 3
                 /\ SubSeq(script.output, Len(script.output) - 2, Len(script.output)) = "..."

\* C26: handleError returns to its caller without throwing for every argument:
\* null, a string, an object with or without a message or a toString method,
\* and a message that is not a string.
C26_HandleErrorNeverThrows ==
    (script.call = "handleError" /\ script.done) => script.output = "returns"

\* C27: updateConfig leaves the pending utterances, their order, the
\* utterance in flight and the timers as they are, and the settle timer that
\* fires with nothing in flight hands the head of the queue to the sink
\* whatever the config says by then, enabled: false included (unless the sink
\* throws at that moment).
C27_UpdateConfigKeepsPending ==
    [][/\ lastCall'.op = "updateConfig"
              => UNCHANGED <<speechQueue, isSpeaking, sink, delivered, timers, nextSeq>>
       /\ (lastCall'.op = "settleTimer" /\ ~isSpeaking /\ speechQueue # <<>>)
              => /\ QueueSeqs(speechQueue') = Tail(QueueSeqs(speechQueue))
                 /\ \/ delivered' = Append(delivered, Head(speechQueue).seq)
                    \/ SinkThrew]_vars

\* an utterance that was pending when updateConfig({enabled: false}) was
\* called has been handed to the sink by the settle timer, the engine being
\* disabled
C27_Witness ==
    /\ ~config.enabled
    /\ lastCall.op = "settleTimer"
    /\ isSpeaking
    /\ Len(delivered) >= 2
    /\ \E utterance \in sink :
          ~utterance.cancelled /\ utterance.seq = delivered[Len(delivered)]

\* C28: updateConfig(partial) sets exactly the options that partial names:
\* an option outside partial keeps its value, an option in partial gets the
\* value of partial, arrays included, except filters, which is merged key by
\* key in the same way; the ledger and the queue stay as they were.
C28_UpdateConfigMergesNamedOptions ==
    [][lastCall'.op = "updateConfig" =>
         LET partial == lastCall'.arg
         IN  /\ DOMAIN config' = DOMAIN config \cup DOMAIN partial
             /\ \A key \in DOMAIN config' \ {"filters"} :
                    config'[key] = IF key \in DOMAIN partial THEN partial[key] ELSE config[key]
             /\ IF "filters" \in DOMAIN partial
                THEN /\ DOMAIN config'.filters
                           = DOMAIN config.filters \cup DOMAIN partial.filters
                     /\ \A key \in DOMAIN config'.filters :
                            config'.filters[key] = IF key \in DOMAIN partial.filters
                                                   THEN partial.filters[key]
                                                   ELSE config.filters[key]
                ELSE config'.filters = config.filters
             /\ UNCHANGED <<ledgerVars, queueVars>>]_vars

\* updateConfig has replaced two arrays of filters and kept onlyPatterns, which
\* an earlier updateConfig had set, while the ledger held an admission
C28_Witness ==
    /\ lastCall.op = "updateConfig"
    /\ "filters" \in DOMAIN lastCall.arg
    /\ "ignorePatterns" \in DOMAIN lastCall.arg.filters
    /\ config.filters.ignorePatterns = <<"Network error">>
    /\ config.filters.errorTypes = <<>>
    /\ config.filters.onlyPatterns = <<"FETCH">>
    /\ ~config.enabled
    /\ GlobalKey \in DOMAIN lastSpoken

\* C30: every text that handleError has put on the queue, pending or handed
\* to the sink, has at most config.maxMessageLength characters, with humanize
\* on and with humanize off.
C30_SpokenTextWithinLimit ==
    /\ \A i \in 1..Len(speechQueue) : Len(speechQueue[i].text) <= config.maxMessageLength
    /\ \A utterance \in sink : Len(utterance.text) <= config.maxMessageLength

(***************************************************************************)
(* Properties of the ledger as a whole.                                    *)
(***************************************************************************)
\* this step is an admission of a fault with this key
AdmittedKey(key) ==
    /\ lastCall'.op = "shouldSpeak"
    /\ lastCall'.result = "admitted"
    /\ errorKeyOf(lastCall'.arg) = key

\* C31: the ledger starts empty; a key is in the ledger exactly when a fault
\* with that key has been admitted, its count is at least 1, and every step
\* adds 1 to the count of the key it admits and leaves every other count as it
\* was, so that the count of a key is the number of its admissions.  (No
\* operation of the engine calls Config.reset.)
C31_CountIsNumberOfAdmissions ==
    /\ errorCounts = <<>> /\ lastSpoken = <<>>
    /\ [](/\ \A key \in DOMAIN errorCounts : errorCounts[key] >= 1
          /\ DOMAIN lastSpoken \ {GlobalKey} = DOMAIN errorCounts
          /\ GlobalKey \in DOMAIN lastSpoken <=> errorCounts # <<>>)
    /\ [][\A key \in {errorKeyOf(error) : error \in PolicyErrors} :
            /\ key \in DOMAIN errorCounts'
                  <=> (key \in DOMAIN errorCounts \/ AdmittedKey(key))
            /\ CountOf(errorCounts', key)
                  = CountOf(errorCounts, key) + (IF AdmittedKey(key) THEN 1 ELSE 0)]_vars

\* C31 witness: a submission was rejected while one key has been admitted twice,
\* another once and a third never
C31_Witness ==
    /\ lastCall.op = "shouldSpeak"
    /\ lastCall.result # "admitted"
    /\ \E key \in DOMAIN errorCounts : errorCounts[key] = 2
    /\ \E key \in DOMAIN errorCounts : errorCounts[key] = 1
    /\ \E error \in PolicyErrors : errorKeyOf(error) \notin DOMAIN errorCounts

(***************************************************************************)
(* Properties of the burst scenario.                                       *)
(***************************************************************************)
\* the calls of the burst that returned with this outcome
BurstCalls(outcome) == {i \in 1..Len(script.log) : script.log[i].outcome = outcome}

C33_OneInvocationPerEvent ==
    /\ script.calls <= 1
    /\ (script.pending = 0 /\ script.fired >= 1) => script.calls = 1

(***************************************************************************)
(* Properties of the status report.                                        *)
(***************************************************************************)
\* C34: when speak() has pushed an utterance on an idle engine, which handed
\* it to the sink, and the next call, with no completion in between, is a
\* speak() that pushes a second utterance, getStatus().queueLength is at
\* least 2 after it: the utterance in flight is counted with the pending one.
C34_QueueLengthCountsInFlight ==
    [][(/\ lastCall.op = "speak"
        /\ lastCall.result = "queued"
        /\ speechQueue = <<>>
        /\ isSpeaking
        /\ delivered # <<>>
        /\ delivered[Len(delivered)] = nextSeq
        /\ lastCall'.op = "speak"
        /\ lastCall'.result = "queued")
       => getStatus'.queueLength >= 2]_vars

(***************************************************************************)
(* Properties of the entry point.                                          *)
(***************************************************************************)
\* C35: whatever the interleaving of setupErrorNarrator, setupErrorNarratorAsync
\* (two calls started before either has resumed included) and the free
\* functions, they construct at most one engine and all operate on it.
C35_OneProcessWideInstance ==
    /\ script.constructed <= 1
    /\ Cardinality(script.used) <= 1

(***************************************************************************)
(* Properties of the queue left to itself.                                 *)
(***************************************************************************)
\* C36: with a sink that completes every delivery and no clearQueue or
\* disable, the pending queue is eventually empty for good, and every pending
\* utterance with a non-empty text is eventually handed to the sink, whether
\* or not speak is called again.
C36_QueueDrains ==
    /\ <>[](speechQueue = <<>>)
    /\ \A seq \in 1..MaxPushes :
          (\E i \in 1..Len(speechQueue) :
               speechQueue[i].seq = seq /\ speechQueue[i].text # "")
             ~> (\E j \in 1..Len(delivered) : delivered[j] = seq)

(***************************************************************************)
(* Properties of the deliveries as a whole.                                *)
(***************************************************************************)
\* C37: an utterance is handed to the sink at most once: the utterances
\* handed to the sink so far are different utterances that have been pushed
\* and are no longer pending, so that the deliveries never outnumber the
\* pushes, whatever timers and completion callbacks are outstanding.
C37_DeliveredAtMostOnce ==
    /\ Len(delivered) <= nextSeq
    /\ \A i, j \in 1..Len(delivered) : i # j => delivered[i] # delivered[j]
    /\ \A i \in 1..Len(delivered) :
          delivered[i] \in 1..nextSeq /\ delivered[i] \notin PendingSeqs

\* C37 witness: two settle timers and the completion callback of an utterance
\* in flight are outstanding at once, after three deliveries
C37_Witness ==
    /\ Len(timers) >= 2
    /\ isSpeaking
    /\ Live # {}
    /\ Len(delivered) = 3

(***************************************************************************)
(* Properties of the delivery settings.                                    *)
(***************************************************************************)
\* C38: every utterance handed to the sink is spoken with the voice, rate,
\* pitch and volume that were configured when it was pushed, whatever
\* updateConfig calls came between its push and its dispatch.
C38_DeliveredAsAdmitted ==
    \A utterance \in sink : utterance.settings = utterance.admitted

(***************************************************************************)
(* Properties of the humanizer.                                            *)
(***************************************************************************)
\* a rule applies to a fault when its regular expression matches the message
\* and, for a rule bound to a kind, the kind of the fault is that kind
RuleApplies(i, fault) ==
    /\ PatternMatch(PatternNames[i], messageOf(fault)).found
    /\ PatternNames[i] \in {"ReferenceError", "TypeError", "RangeError", "URIError"}
          => PatternNames[i] = fault.name

\* the sentence of rule i for a fault, within the limit
RuleSentence(i, fault, maxLength) ==
    truncateMessage(PatternHandler(PatternNames[i],
                                   PatternMatch(PatternNames[i], messageOf(fault))),
                    maxLength)

\* C39: humanizeError renders a fault with the first rule, in the order of
\* registration, that applies to it; so a TypeError with the message
\* "Assignment to constant variable" gets the sentence of the assignment rule
\* and not that of the TypeError rule.
C39_FirstMatchingRuleWins ==
    (script.call = "humanizeError" /\ script.done) =>
        \A i \in 1..Len(PatternNames) :
            (/\ RuleApplies(i, script.argument)
             /\ \A j \in 1..(i - 1) : ~RuleApplies(j, script.argument))
            => script.output = RuleSentence(i, script.argument, script.maxLength)

====
